---- MODULE Spec2Model ----
(***************************************************************************)
(* State-machine model of the chatbot backend's in-memory core:            *)
(*   - Session Memory        (src/lib/memory.js)                           *)
(*   - Rate Limiter          (src/lib/openai.js, lines 23-78)              *)
(*   - Embedding Store       (src/unnamed/part_001, the lib/embeddings     *)
(*                            module) and its caller in src/api/chat.js    *)
(*   - Chunker and cosine similarity, as pure functions                    *)
(*   - Retriever             (src/lib/retriever.js)                        *)
(*   - Chat handler          (src/api/chat.js)                             *)
(* Node.js runs a handler to completion between two awaits, so each        *)
(* synchronous function is one atomic action and an async function is cut  *)
(* at its awaits.  Each subsystem has its own specification; the variables *)
(* of the other subsystems stay at their start values.                     *)
(***************************************************************************)
EXTENDS Integers, Sequences, FiniteSets, TLC

VARIABLES
  sessions,        \* memory.js:2   Map sessionId -> array of turns
  appended,        \* ghost: per session id, the turns appended since the session was (re)created
  memOps,          \* ghost: number of Session Memory operations performed
  memLast,         \* ghost: the last Session Memory operation and what it returned
  requestCounts,   \* openai.js:24  Map ip -> array of request timestamps (ms)
  now,             \* the clock read by Date.now(), in ms; it never runs backwards
  accepted,        \* ghost: per ip, the timestamps of the isRateLimited calls that returned false
  rlLog,           \* ghost: the isRateLimited calls and sweep runs made, each with the map before it
  corpus,          \* the files loadDataFiles finds in data/ (fixed during a behaviour)
  embeddingsCache, \* part_001:6   null, or the array of embedded chunks
  embeddingsInitialized, \* chat.js:8  the handler's flag
  callers,         \* per caller: where its call of the embedding initialization stands
  genCalls,        \* ghost: embedding-generation calls issued by initializeEmbeddings
  populations,     \* ghost: assignments made to embeddingsCache
  embCalls,        \* ghost: calls started
  calc,            \* the last application of a pure function: its inputs and its result
  retrievals,      \* per caller: where its call of retrieveContext stands
  retCalls,        \* ghost: calls of retrieveContext started
  handling,        \* per chat request: where the handler stands, its locals, its response
  queryCalls,      \* ghost: query embedding calls issued by retrieveContext for the handler
  completionCalls  \* ghost: completion calls issued by the handler

memVars == <<sessions, appended, memOps, memLast>>

rlVars == <<requestCounts, now, accepted, rlLog>>

embVars == <<corpus, embeddingsCache, embeddingsInitialized, callers, genCalls,
             populations, embCalls>>

calcVars == <<calc>>

retVars == <<retrievals, retCalls>>

chatVars == <<handling, queryCalls, completionCalls>>

vars == <<sessions, appended, memOps, memLast, requestCounts, now, accepted, rlLog,
          corpus, embeddingsCache, embeddingsInitialized, callers, genCalls,
          populations, embCalls, calc, retrievals, retCalls,
          handling, queryCalls, completionCalls>>

(***************************************************************************)
(* Generic helpers: a JavaScript Map is a function whose DOMAIN is the set *)
(* of keys present.                                                        *)
(***************************************************************************)
EmptyMap == [k \in {} |-> <<>>]

\* map.set(k, v)
MapSet(m, k, v) == (k :> v) @@ m

\* map.delete(k)
MapDelete(m, k) == [x \in (DOMAIN m) \ {k} |-> m[x]]

Min(a, b) == IF a <= b THEN a ELSE b

\* The array whose elements are those of f, a function on 1..n.
ArrayOf(f) == <<>> \o f

\* The last n elements of s (all of s when it has fewer).
LastN(s, n) == SubSeq(s, Len(s) - Min(Len(s), n) + 1, Len(s))

(***************************************************************************)
(* Session Memory (src/lib/memory.js)                                      *)
(***************************************************************************)
MAX_MESSAGES_PER_SESSION == 20

SessionIds == {"", "s1"}

Roles == {"user", "assistant"}

\* Message texts are opaque to memory.js; they are represented by integers.
Contents == {0, 1}

\* Bound on the number of Session Memory operations in one behaviour.
MaxMemOps == 3

\* Mutant: a call with an unseen id creates an empty session for every id.
SessionsAfterGet_EveryId(m, sessionId) ==
  IF sessionId \in DOMAIN m THEN m
  ELSE [s \in SessionIds |-> IF s \in DOMAIN m THEN m[s] ELSE <<>>]

\* getSessionHistory: the map after the call (an unseen id gets an empty array).
SessionsAfterGet(m, sessionId) ==
  IF sessionId \in DOMAIN m THEN m ELSE MapSet(m, sessionId, <<>>)

\* getSessionHistory: the array returned.
GetSessionHistory(m, sessionId) == SessionsAfterGet(m, sessionId)[sessionId]

\* Mutant: the newest turn is dropped instead of the oldest (pop for shift).
PushAndEvict_DropNewest(history, turn) ==
  LET pushed == Append(history, turn)
  IN  IF Len(pushed) > MAX_MESSAGES_PER_SESSION
      THEN SubSeq(pushed, 1, MAX_MESSAGES_PER_SESSION) ELSE pushed

\* addMessage lines 26-31: push, then one shift when the length exceeds the maximum.
PushAndEvict(history, turn) ==
  LET pushed == Append(history, turn)
  IN  IF Len(pushed) > MAX_MESSAGES_PER_SESSION THEN Tail(pushed) ELSE pushed

\* Mutant: an empty session id is treated as no id and nothing is stored.
AddMessage_SkipEmptyId(m, sessionId, role, content) ==
  IF sessionId = "" THEN m
  ELSE MapSet(SessionsAfterGet(m, sessionId), sessionId,
              PushAndEvict(SessionsAfterGet(m, sessionId)[sessionId],
                           [role |-> role, content |-> content]))

\* addMessage: the map after the call.
AddMessage(m, sessionId, role, content) ==
  LET m1 == SessionsAfterGet(m, sessionId)
      history == PushAndEvict(m1[sessionId], [role |-> role, content |-> content])
  IN  MapSet(m1, sessionId, history)

\* Mutant: clearing one session clears the whole store.
ClearSession_All(m, sessionId) == EmptyMap

\* clearSession: the map after the call.
ClearSession(m, sessionId) == MapDelete(m, sessionId)

\* getSessionCount
GetSessionCount(m) == Cardinality(DOMAIN m)

(***************************************************************************)
(* Rate Limiter (src/lib/openai.js lines 23-78)                            *)
(***************************************************************************)
RATE_LIMIT_WINDOW == 60000

MAX_REQUESTS_PER_WINDOW == 60

\* 'unknown' is getClientIP's fallback (src/api/chat.js:34-38).
ClientIPs == {"10.0.0.1", "unknown"}

\* Time that passes between two events, in ms.
Elapsed == {0, 1, 59999}

\* Bound on the number of isRateLimited calls and sweep runs in one behaviour.
MaxRLEvents == 3

\* Mutant: a timestamp expires one millisecond early.
InWindow_Short(timestamp, t) == t - timestamp < RATE_LIMIT_WINDOW - 1

\* The filter predicate of lines 44 and 64.
InWindow(timestamp, t) == t - timestamp < RATE_LIMIT_WINDOW

\* Mutant: a timestamp exactly one window old still counts (<= for <).
ValidRequests_Inclusive(requests, t) ==
  SelectSeq(requests, LAMBDA timestamp : t - timestamp <= RATE_LIMIT_WINDOW)

\* requests.filter(timestamp => now - timestamp < RATE_LIMIT_WINDOW)
ValidRequests(requests, t) == SelectSeq(requests, LAMBDA timestamp : InWindow(timestamp, t))

\* isRateLimited lines 37-39: an unseen ip gets an empty array.
CountsAfterLookup(m, ip) == IF ip \in DOMAIN m THEN m ELSE MapSet(m, ip, <<>>)

\* Mutant: > for >= in the threshold test.
OverLimit_Strict(validRequests) == Len(validRequests) > MAX_REQUESTS_PER_WINDOW

\* The threshold test of line 46.
OverLimit(validRequests) == Len(validRequests) >= MAX_REQUESTS_PER_WINDOW

\* isRateLimited: the value returned at clock value t.
IsRateLimited(m, ip, t) == OverLimit(ValidRequests(CountsAfterLookup(m, ip)[ip], t))

\* Mutant: the request is recorded before the threshold test, so also when rejected.
CountsAfterCheck_AlwaysRecord(m, ip, t) ==
  LET m1 == IF ip \in DOMAIN m THEN m ELSE (ip :> <<>>) @@ m
      validRequests == SelectSeq(m1[ip], LAMBDA timestamp : t - timestamp < RATE_LIMIT_WINDOW)
  IN  (ip :> Append(validRequests, t)) @@ m1

\* isRateLimited: the map after the call at clock value t.
CountsAfterCheck(m, ip, t) ==
  LET m1 == CountsAfterLookup(m, ip)
      validRequests == ValidRequests(m1[ip], t)
  IN  IF OverLimit(validRequests) THEN m1
      ELSE MapSet(m1, ip, Append(validRequests, t))

\* Mutant: the sweep empties the map.
CleanupRateLimitData_DropAll(m, t) == [ip \in {k \in DOMAIN m : FALSE} |-> m[ip]]

\* Mutant: the sweep deletes a key as soon as one of its timestamps has expired.
CleanupRateLimitData_DeleteStale(m, t) ==
  [ip \in {k \in DOMAIN m :
             SelectSeq(m[k], LAMBDA timestamp : t - timestamp < RATE_LIMIT_WINDOW) = m[k]}
     |-> m[ip]]

\* cleanupRateLimitData: the map after a sweep at clock value t.
CleanupRateLimitData(m, t) ==
  [ip \in {k \in DOMAIN m : Len(ValidRequests(m[k], t)) # 0} |-> ValidRequests(m[ip], t)]

(***************************************************************************)
(* Embedding Store (src/unnamed/part_001)                                  *)
(*                                                                         *)
(* File contents are opaque: a text is the range [from, to) of a named     *)
(* document, so that a slice of it is again such a range.                  *)
(***************************************************************************)
DEFAULT_CHUNK_SIZE == 800

DEFAULT_OVERLAP == 200

BATCH_SIZE == 100

WholeText(name, length) == [doc |-> name, from |-> 0, to |-> length]

\* text.length
TextLength(text) == text.to - text.from

\* text.slice(start, end) for 0 <= start <= end <= text.length
TextSlice(text, start, end) ==
  [doc |-> text.doc, from |-> text.from + start, to |-> text.from + end]

\* The while loop of chunkText, from the given value of start.
RECURSIVE ChunkLoop(_, _, _, _)
ChunkLoop(text, start, chunkSize, overlap) ==
  IF start < TextLength(text)
  THEN <<TextSlice(text, start, Min(start + chunkSize, TextLength(text)))>>
       \o ChunkLoop(text, start + chunkSize - overlap, chunkSize, overlap)
  ELSE <<>>

\* Mutant: the windows do not overlap (start advances by chunkSize).
ChunkText_NoOverlap(text, chunkSize, overlap) == ChunkLoop(text, 0, chunkSize, 0)

\* chunkText, lines 15-26
ChunkText(text, chunkSize, overlap) == ChunkLoop(text, 0, chunkSize, overlap)

\* initializeEmbeddings lines 89-95: the chunks of one file.
FileChunks(file) ==
  LET chunks == ChunkText(file.content, DEFAULT_CHUNK_SIZE, DEFAULT_OVERLAP)
  IN  [k \in 1..Len(chunks) |-> [text |-> chunks[k], source |-> file.filename]]

\* initializeEmbeddings lines 85-96: the chunks of every file, in file order
\* (the for loop over dataFiles, evaluated by halves to keep the evaluation shallow).
RECURSIVE AllChunks(_)
AllChunks(dataFiles) ==
  IF Len(dataFiles) = 0 THEN <<>>
  ELSE IF Len(dataFiles) = 1 THEN FileChunks(dataFiles[1])
  ELSE LET half == Len(dataFiles) \div 2
       IN  AllChunks(SubSeq(dataFiles, 1, half))
           \o AllChunks(SubSeq(dataFiles, half + 1, Len(dataFiles)))

\* allChunks.slice(i, i + batchSize)
BatchAt(allChunks, i) == SubSeq(allChunks, i + 1, Min(i + BATCH_SIZE, Len(allChunks)))

\* batch.map(chunk => chunk.text)
BatchTexts(batch) == [k \in 1..Len(batch) |-> batch[k].text]

\* The external embedding capability as generateEmbeddings returns it: one vector
\* per input, in input order.  A vector is known by the text it embeds and by the
\* answer of the service (two calls need not give the same numbers).
GenerateEmbeddings(texts, answer) ==
  [k \in 1..Len(texts) |-> [of |-> texts[k], answer |-> answer]]

\* Mutant: a batch's vectors are put in front of the earlier ones.
PushBatch_Front(embeddings, batchEmbeddings) == batchEmbeddings \o embeddings

\* embeddings.push(...batchEmbeddings), line 108
PushBatch(embeddings, batchEmbeddings) == embeddings \o batchEmbeddings

\* initializeEmbeddings lines 112-116
CombineChunks(allChunks, embeddings) ==
  [index \in 1..Len(allChunks) |->
     [text |-> allChunks[index].text,
      embedding |-> embeddings[index],
      source |-> allChunks[index].source]]

NullCache == [set |-> FALSE, items |-> <<>>]

PopulatedCache(items) == [set |-> TRUE, items |-> items]

\* The locals of a fresh run of initializeEmbeddings (lines 102 and 104).
FreshLocals(old) == [i |-> 0, embeddings |-> <<>>]

\* Mutant: the cache test of line 79 is missing.
CacheHit_Never(cache) == FALSE

\* Line 79: does this call return the cache without generating?
CacheHit(cache) == cache.set

\* The loop test of line 104.
MoreBatches(i, allChunks) == i < Len(allChunks)

\* Mutant: a failed run stores the chunks embedded so far.
CacheAfterFailure_KeepPartial(cache, allChunks, embeddings) ==
  [set |-> TRUE,
   items |-> [index \in 1..Len(embeddings) |->
                [text |-> allChunks[index].text,
                 embedding |-> embeddings[index],
                 source |-> allChunks[index].source]]]

\* What a failed batch leaves in the cache (the throw of line 70 skips line 112).
CacheAfterFailure(cache, allChunks, embeddings) == cache

Callers == {"r1", "r2"}

\* "ensure": ensureEmbeddingsInitialized (chat.js); "get": getEmbeddings;
\* "init": initializeEmbeddings called directly.
Vias == {"ensure", "get", "init"}

Answers == {1, 2}

\* The k-th .txt file of data/, holding `length` characters; a file is named by k.
DataFile(k, length) == [filename |-> k, content |-> WholeText(k, length)]

\* The corpora tried: no file; files giving 2 + 0 + 3 chunks; 50 files of 2 chunks
\* (exactly one batch of 100); 50 files of 2 chunks and one of 1 chunk (101 chunks:
\* a full batch and a batch of one).
Corpora ==
  { <<>>,
    <<DataFile(1, 1000), DataFile(2, 0), DataFile(3, 1400)>>,
    [k \in 1..50 |-> DataFile(k, 1000)],
    [k \in 1..51 |-> DataFile(k, IF k = 51 THEN 500 ELSE 1000)] }

\* AllChunks of every corpus, computed once.
CorpusChunks == [dataFiles \in Corpora |-> AllChunks(dataFiles)]

\* Bound on the number of calls started in one behaviour.
MaxEmbCalls == 2

IdleCaller ==
  [pc |-> "idle", via |-> "init", i |-> 0, embeddings |-> <<>>,
   value |-> <<>>, result |-> "none",
   startedPopulated |-> FALSE, cacheAtStart |-> <<>>, flagAtStart |-> FALSE,
   gen |-> 0, wrote |-> FALSE, failed |-> FALSE, batchesDone |-> 0,
   prevFailedAfter |-> -1]

(***************************************************************************)
(* IEEE-754 double arithmetic, as JavaScript numbers compute it            *)
(*                                                                         *)
(* A finite non-zero double is sign * mant * 2^exp with                    *)
(* 2^52 <= mant < 2^53.  A mantissa, and every wider intermediate value,   *)
(* is a sequence of 8 limbs of 14 bits, least significant first.  Each     *)
(* operation computes the exact result and rounds it to nearest, ties to   *)
(* even, as the hardware does.                                             *)
(***************************************************************************)
LimbBase == 2^14

Limbs == 1..8

LimbAt(a, i) == IF i \in Limbs THEN a[i] ELSE 0

\* The carry into limb i when the column values c are reduced to limbs.
RECURSIVE CarryInto(_, _)
CarryInto(c, i) ==
  IF i = 1 THEN 0 ELSE (c[i - 1] + CarryInto(c, i - 1)) \div LimbBase

BigNorm(c) == ArrayOf([i \in Limbs |-> (c[i] + CarryInto(c, i)) % LimbBase])

\* The number held by a 4-limb table entry.
BigOfLimbs(m) == ArrayOf([i \in Limbs |-> IF i <= Len(m) THEN m[i] ELSE 0])

\* a * b for a, b < 2^56
BigMul(a, b) ==
  BigNorm(ArrayOf([k \in Limbs |-> LimbAt(a, 1) * LimbAt(b, k) + LimbAt(a, 2) * LimbAt(b, k - 1)
           + LimbAt(a, 3) * LimbAt(b, k - 2) + LimbAt(a, 4) * LimbAt(b, k - 3)]))

\* a * q for a limb q
BigMulSmall(a, q) == BigNorm(ArrayOf([k \in Limbs |-> a[k] * q]))

BigLess(a, b) ==
  LET differ == {i \in Limbs : a[i] # b[i]}
      top == CHOOSE i \in differ : \A j \in differ : j <= i
  IN  differ # {} /\ a[top] < b[top]

RECURSIVE BorrowInto(_, _, _)
BorrowInto(a, b, i) ==
  IF i = 1 THEN 0
  ELSE IF a[i - 1] - b[i - 1] - BorrowInto(a, b, i - 1) < 0 THEN 1 ELSE 0

\* a - b for a >= b
BigSub(a, b) ==
  ArrayOf([i \in Limbs |-> (a[i] - b[i] - BorrowInto(a, b, i) + LimbBase) % LimbBase])

\* floor(a / 2^s)
BigShr(a, s) ==
  LET ls == s \div 14
      bs == s % 14
  IN  ArrayOf([i \in Limbs |-> (LimbAt(a, i + ls) \div 2^bs)
                       + (LimbAt(a, i + ls + 1) % 2^bs) * 2^(14 - bs)])

\* a * 2^s (the bits shifted past limb 8 are dropped)
BigShl(a, s) ==
  LET ls == s \div 14
      bs == s % 14
  IN  ArrayOf([i \in Limbs |-> (LimbAt(a, i - ls) % 2^(14 - bs)) * 2^bs
                       + (LimbAt(a, i - ls - 1) \div 2^(14 - bs))])

BigInc(a) == BigNorm([a EXCEPT ![1] = a[1] + 1])

\* The number of significant bits of a > 0.
BigBitLen(a) ==
  LET top == CHOOSE i \in Limbs : a[i] # 0 /\ \A j \in Limbs : j > i => a[j] = 0
      bits == CHOOSE k \in 1..14 : 2^(k - 1) <= a[top] /\ a[top] < 2^k
  IN  14 * (top - 1) + bits

\* The double nearest to x * 2^e, where x = a when exact and a < x < a + 1
\* otherwise; a has more than 54 significant bits.
RoundToDouble(a, exact, e) ==
  LET shift == BigBitLen(a) - 53
      kept == BigShr(a, shift)
      withHalf == BigShr(a, shift - 1)
      halfBit == withHalf[1] % 2
      belowHalf == ~exact \/ BigShl(withHalf, shift - 1) # a
      up == halfBit = 1 /\ (belowHalf \/ kept[1] % 2 = 1)
      rounded == IF up THEN BigInc(kept) ELSE kept
  IN  IF BigBitLen(rounded) = 54
        THEN [mant |-> BigShr(rounded, 1), exp |-> e + shift + 1]
        ELSE [mant |-> rounded, exp |-> e + shift]

\* x * y for positive doubles
DoubleMul(x, y) == RoundToDouble(BigMul(x.mant, y.mant), TRUE, x.exp + y.exp)

\* floor(r / m) for r < m * 2^14: an estimate from the leading bits, corrected.
QuotDigit(r, m) ==
  LET rTop == (r[3] \div 2^10) + r[4] * 2^4 + r[5] * 2^18
      mTop == (m[3] \div 2^10) + m[4] * 2^4
      estimate == rTop \div mTop
  IN  CHOOSE q \in {c \in (estimate - 3)..(estimate + 1) : c >= 0 /\ c < LimbBase} :
        /\ ~BigLess(r, BigMulSmall(m, q))
        /\ BigLess(BigSub(r, BigMulSmall(m, q)), m)

\* k more limbs of the quotient of r * 2^(14 k) by m, with the remainder.
RECURSIVE DivSteps(_, _, _, _)
DivSteps(r, m, quotient, k) ==
  IF k = 0 THEN [quotient |-> quotient, remainder |-> r]
  ELSE LET shifted == ArrayOf([i \in Limbs |-> LimbAt(r, i - 1)])
           q == QuotDigit(shifted, m)
       IN  DivSteps(BigSub(shifted, BigMulSmall(m, q)), m,
                    ArrayOf([i \in Limbs |-> IF i = 1 THEN q ELSE LimbAt(quotient, i - 1)]),
                    k - 1)

\* d / y for an integer 0 < d < 2^10 and a positive double y
DoubleDivInt(d, y) ==
  LET start == ArrayOf([i \in Limbs |-> IF i = 4 THEN d ELSE 0])
      zero == ArrayOf([i \in Limbs |-> 0])
      division == DivSteps(start, y.mant, zero, 5)
  IN  RoundToDouble(division.quotient, division.remainder = zero, -112 - y.exp)

(***************************************************************************)
(* Retriever (src/lib/retriever.js)                                        *)
(*                                                                         *)
(* Vectors are sequences of small integers, so dotProduct, normA and normB *)
(* of lines 14-18 are integers that a double holds exactly; the rounding   *)
(* happens in line 20 (two square roots, a product, a quotient).           *)
(***************************************************************************)
Components == {-1, 0, 1}

\* Dimension of the vectors tried.
VectorDim == 3

Vectors == [1..VectorDim -> Components]

\* The largest normA, normB and |dotProduct| a vector over Components gives.
MaxNorm == VectorDim

\* sum of a[i] * b[i] for i < n: one accumulator of the loop of lines 14-18
RECURSIVE SumProducts(_, _, _)
SumProducts(a, b, n) ==
  IF n = 0 THEN 0 ELSE SumProducts(a, b, n - 1) + a[n] * b[n]

DotProduct(a, b) == SumProducts(a, b, Len(a))

NormA(a) == SumProducts(a, a, Len(a))

NaN == [kind |-> "nan"]

Zero == [kind |-> "zero"]

\* Math.sqrt(n) for n = 1 .. 16, as doubles.
SqrtTable ==
  <<
    [mant |-> BigOfLimbs(<<0, 0, 0, 1024>>), exp |-> -52],
    [mant |-> BigOfLimbs(<<15309, 6652, 2534, 1448>>), exp |-> -52],
    [mant |-> BigOfLimbs(<<3242, 8545, 10158, 1773>>), exp |-> -52],
    [mant |-> BigOfLimbs(<<0, 0, 0, 1024>>), exp |-> -51],
    [mant |-> BigOfLimbs(<<13480, 11871, 14201, 1144>>), exp |-> -51],
    [mant |-> BigOfLimbs(<<8494, 4132, 2273, 1254>>), exp |-> -51],
    [mant |-> BigOfLimbs(<<14570, 10059, 10234, 1354>>), exp |-> -51],
    [mant |-> BigOfLimbs(<<15309, 6652, 2534, 1448>>), exp |-> -51],
    [mant |-> BigOfLimbs(<<0, 0, 0, 1536>>), exp |-> -51],
    [mant |-> BigOfLimbs(<<6995, 11113, 1411, 1619>>), exp |-> -51],
    [mant |-> BigOfLimbs(<<12084, 4085, 1833, 1698>>), exp |-> -51],
    [mant |-> BigOfLimbs(<<3242, 8545, 10158, 1773>>), exp |-> -51],
    [mant |-> BigOfLimbs(<<6643, 4485, 692, 1846>>), exp |-> -51],
    [mant |-> BigOfLimbs(<<16201, 1440, 11937, 1915>>), exp |-> -51],
    [mant |-> BigOfLimbs(<<3802, 1341, 15851, 1982>>), exp |-> -51],
    [mant |-> BigOfLimbs(<<0, 0, 0, 1024>>), exp |-> -50]
  >>

MathSqrt(n) == SqrtTable[n]

\* Line 20: dotProduct / (Math.sqrt(normA) * Math.sqrt(normB)).  A zero norm
\* makes the divisor 0 and, the vector being zero, the dividend 0: 0 / 0 is NaN.
Quotient(dotProduct, normA, normB) ==
  IF normA = 0 \/ normB = 0 THEN NaN
  ELSE IF dotProduct = 0 THEN Zero
  ELSE LET q == DoubleDivInt(IF dotProduct < 0 THEN -dotProduct ELSE dotProduct,
                             DoubleMul(MathSqrt(normA), MathSqrt(normB)))
       IN  [kind |-> "num", sign |-> IF dotProduct < 0 THEN -1 ELSE 1,
            mant |-> q.mant, exp |-> q.exp]

\* Line 20 for every dotProduct, normA and normB that occur, computed once.
QuotientTable ==
  [t \in ((-MaxNorm)..MaxNorm) \X (0..MaxNorm) \X (0..MaxNorm) |->
     Quotient(t[1], t[2], t[3])] @@ EmptyMap

\* cosineSimilarity, lines 9-21
CosineSimilarity(a, b) == QuotientTable[<<DotProduct(a, b), NormA(a), NormA(b)>>]

DoubleSign(x) == IF x.kind = "zero" THEN 0 ELSE x.sign

\* |x| < |y| for non-zero doubles
MagnitudeLess(x, y) ==
  x.exp < y.exp \/ (x.exp = y.exp /\ BigLess(x.mant, y.mant))

\* x < y for doubles other than NaN
DoubleLess(x, y) ==
  IF DoubleSign(x) # DoubleSign(y) THEN DoubleSign(x) < DoubleSign(y)
  ELSE IF DoubleSign(x) = 0 THEN FALSE
  ELSE IF DoubleSign(x) = 1 THEN MagnitudeLess(x, y)
  ELSE MagnitudeLess(y, x)

\* The comparator of line 47: (a, b) => b.similarity - a.similarity.  The
\* difference of two doubles is NaN when one is NaN and has the sign of the
\* exact difference otherwise.
CompareFn(a, b) ==
  IF a.similarity.kind = "nan" \/ b.similarity.kind = "nan"
    THEN [nan |-> TRUE, sign |-> 0]
  ELSE [nan |-> FALSE,
        sign |-> IF DoubleLess(b.similarity, a.similarity) THEN -1
                 ELSE IF DoubleLess(a.similarity, b.similarity) THEN 1 ELSE 0]

\* Array.prototype.sort reads a comparator result of NaN as +0.
SortCompare(x, y) == IF CompareFn(x, y).nan THEN 0 ELSE CompareFn(x, y).sign

(***************************************************************************)
(* Array.prototype.sort (line 47) as Node's engine runs it on an array of  *)
(* fewer than 64 elements: it finds the run the array starts with         *)
(* (reversing a strictly descending one) and inserts the remaining        *)
(* elements by binary insertion.  With a consistent comparator this is    *)
(* the stable sort the language requires; with NaN results the order is   *)
(* what this procedure leaves.                                            *)
(***************************************************************************)
\* The length of the run arr starts with; idx is the next position to look at.
RECURSIVE ExtendRun(_, _, _)
ExtendRun(arr, idx, isDescending) ==
  IF idx > Len(arr) THEN Len(arr)
  ELSE IF isDescending /\ SortCompare(arr[idx], arr[idx - 1]) >= 0 THEN idx - 1
  ELSE IF ~isDescending /\ SortCompare(arr[idx], arr[idx - 1]) < 0 THEN idx - 1
  ELSE ExtendRun(arr, idx + 1, isDescending)

RunIsDescending(arr) == SortCompare(arr[2], arr[1]) < 0

CountRun(arr) == ExtendRun(arr, 3, RunIsDescending(arr))

ReverseRange(arr, n) ==
  ArrayOf([k \in 1..Len(arr) |-> IF k <= n THEN arr[n + 1 - k] ELSE arr[k]])

MakeRun(arr) ==
  IF RunIsDescending(arr) THEN ReverseRange(arr, CountRun(arr)) ELSE arr

\* Where pivot goes among arr[left+1 .. right] (positions counted from 0).
RECURSIVE InsertionPoint(_, _, _, _)
InsertionPoint(arr, pivot, left, right) ==
  IF left >= right THEN left
  ELSE IF SortCompare(pivot, arr[left + ((right - left) \div 2) + 1]) < 0
    THEN InsertionPoint(arr, pivot, left, left + ((right - left) \div 2))
  ELSE InsertionPoint(arr, pivot, left + ((right - left) \div 2) + 1, right)

\* arr with the element at position start (from 0) moved to position left.
MoveTo(arr, start, left) ==
  ArrayOf([k \in 1..Len(arr) |->
             IF k - 1 < left \/ k - 1 > start THEN arr[k]
             ELSE IF k - 1 = left THEN arr[start + 1]
             ELSE arr[k - 1]])

RECURSIVE BinaryInsertionSort(_, _)
BinaryInsertionSort(arr, start) ==
  IF start >= Len(arr) THEN arr
  ELSE BinaryInsertionSort(
         MoveTo(arr, start, InsertionPoint(arr, arr[start + 1], 0, start)),
         start + 1)

ArraySort(arr) ==
  IF Len(arr) < 2 THEN arr ELSE BinaryInsertionSort(MakeRun(arr), CountRun(arr))

\* Lines 39-44: one entry per stored item, in store order.
Similarities(queryEmbedding, embeddings) ==
  ArrayOf([k \in 1..Len(embeddings) |->
             [index |-> k - 1,
              similarity |-> CosineSimilarity(queryEmbedding, embeddings[k].embedding),
              text |-> embeddings[k].text,
              source |-> embeddings[k].source]])

\* arr.slice(0, end)
SliceFromStart(arr, end) ==
  IF end < 0
    THEN SubSeq(arr, 1, IF Len(arr) + end > 0 THEN Len(arr) + end ELSE 0)
  ELSE SubSeq(arr, 1, Min(end, Len(arr)))

\* Lines 39-48
TopResults(queryEmbedding, embeddings, topK) ==
  SliceFromStart(ArraySort(Similarities(queryEmbedding, embeddings)), topK)

\* `[Source: ${result.source}]\n${result.text}`, line 52
FormatResult(result) ==
  [kind |-> "passage", source |-> result.source, text |-> result.text]

\* '\n\n---\n\n', line 53
Separator == [kind |-> "separator"]

\* parts.join(separator): a string is the sequence of its pieces, '' is <<>>.
Join(parts) ==
  ArrayOf([k \in 1..(IF Len(parts) = 0 THEN 0 ELSE 2 * Len(parts) - 1) |->
             IF k % 2 = 1 THEN parts[(k + 1) \div 2] ELSE Separator])

EmptyString == <<>>

\* Lines 51-53
ContextOf(topResults) ==
  Join(ArrayOf([k \in 1..Len(topResults) |-> FormatResult(topResults[k])]))

\* Mutant: a failure is thrown on to the caller.
ContextOnError_Rethrow == <<[kind |-> "thrown"]>>

\* Lines 56-59: what retrieveContext returns when anything inside it threw.
ContextOnError == EmptyString

RetCallers == {"q1"}

\* topK: 1, and the default 3 that the chat handler uses.
TopKs == {1, 3}

\* The vector whose first two components are x and y, the others 0.
Vec(x, y) == [i \in 1..VectorDim |-> IF i = 1 THEN x ELSE IF i = 2 THEN y ELSE 0]

\* Vectors the embedding capability returns in SpecRet.
RetVectors == {Vec(0, 0), Vec(1, 0), Vec(0, 1), Vec(1, 1), Vec(-1, 0)}

\* Corpora of 0, 1, 2 and 3 chunks.
RetCorpora ==
  { <<>>,
    <<DataFile(1, 500)>>,
    <<DataFile(1, 1000)>>,
    <<DataFile(1, 1000), DataFile(2, 500)>> }

RetCorpusChunks == [dataFiles \in RetCorpora |-> AllChunks(dataFiles)]

\* Bound on the number of retrieveContext calls started in one behaviour.
MaxRetCalls == 2

IdleRetrieval ==
  [pc |-> "idle", topK |-> 0, queryEmbedding |-> <<>>, i |-> 0, embeddings |-> <<>>,
   store |-> <<>>, selected |-> <<>>, result |-> <<>>, outcome |-> "none",
   failedAt |-> "none"]

(***************************************************************************)
(* Chat handler (src/api/chat.js)                                          *)
(*                                                                         *)
(* The file holds two revisions of the handler: "v1" (lines 43-154) and    *)
(* "v2" (lines 239-373), which adds the API key check and answers a        *)
(* missing session id with 403.  A string is the sequence of its pieces,   *)
(* '' is <<>>.  getOpenAIClient throwing (OPENAI_API_KEY unset) is a       *)
(* failure of the call it precedes.                                        *)
(***************************************************************************)
ChatRequests == {"c1", "c2"}

Handlers == {"v1", "v2"}

Methods == {"POST", "OPTIONS", "GET"}

\* x-api-key header ("" when absent) and process.env.CHAT_API_KEY ("" when unset)
ApiKeys == {"", "wrong", "secret"}

ExpectedKeys == {"", "secret"}

\* The text of the message a request carries.
UserText(r) == <<[kind |-> "text", of |-> r]>>

\* req.body.message: missing or '', or the request's text.
ChatMessages(r) == {EmptyString, UserText(r)}

\* delta.content of a stream chunk: absent or '', or one token.
StreamContents == {EmptyString, <<[kind |-> "token"]>>}

\* Vectors the embedding capability returns in SpecChat.
ChatVectors == {Vec(1, 0), Vec(0, 1)}

\* Corpora of SpecChat: no chunk, one chunk.
ChatCorpora == {<<>>, <<DataFile(1, 500)>>}

ChatCorpusChunks == [dataFiles \in ChatCorpora |-> AllChunks(dataFiles)]

\* Time between a request and the previous one, in ms.
ChatElapsed == {1}

\* Bound on the chunks of one completion stream.
MaxStreamChunks == 1

\* retrieveContext(query, topK = 3)
DEFAULT_TOP_K == 3

\* validateApiKey, lines 211-234
ValidateApiKey(apiKey, expectedKey) ==
  IF expectedKey = "" THEN [valid |-> FALSE, error |-> "Server configuration error"]
  ELSE IF apiKey = "" THEN [valid |-> FALSE, error |-> "Missing API key"]
  ELSE IF apiKey # expectedKey THEN [valid |-> FALSE, error |-> "Invalid API key"]
  ELSE [valid |-> TRUE, error |-> ""]

NoResponse == [status |-> 0, error |-> ""]

\* Mutant: the session id is not checked before the rate limiter is asked.
EarlyResponse_NoSessionCheck(handler, method, apiKey, expectedKey, sessionId) ==
  IF method = "OPTIONS" THEN [status |-> 200, error |-> ""]
  ELSE IF method # "POST" THEN [status |-> 405, error |-> "Method not allowed"]
  ELSE IF handler = "v2" /\ ~ValidateApiKey(apiKey, expectedKey).valid
    THEN [status |-> 403, error |-> ValidateApiKey(apiKey, expectedKey).error]
  ELSE [status |-> 0, error |-> ""]

\* The answer given before the rate limiter is asked, if any
\* (lines 48-62 and 254-274).
EarlyResponse(handler, method, apiKey, expectedKey, sessionId) ==
  IF method = "OPTIONS" THEN [status |-> 200, error |-> ""]
  ELSE IF method # "POST" THEN [status |-> 405, error |-> "Method not allowed"]
  ELSE IF handler = "v2" /\ ~ValidateApiKey(apiKey, expectedKey).valid
    THEN [status |-> 403, error |-> ValidateApiKey(apiKey, expectedKey).error]
  ELSE IF sessionId = ""
    THEN [status |-> IF handler = "v1" THEN 400 ELSE 403, error |-> "Missing session ID"]
  ELSE NoResponse

\* !message || typeof message !== 'string', for a message that is a string
MessageIsInvalid(message) == message = EmptyString

IdleRequest ==
  [pc |-> "idle", sessionId |-> "", message |-> <<>>,
   viaInit |-> FALSE, i |-> 0, embeddings |-> <<>>, context |-> <<>>,
   messages |-> <<>>, fullResponse |-> <<>>, chunks |-> 0,
   status |-> 0, error |-> "", headersSent |-> FALSE, events |-> <<>>,
   steps |-> <<>>]

\* res.status(status).json({ error }): the request is answered and over.
Respond(me, status, error) ==
  [me EXCEPT !.pc = "done", !.status = status, !.error = error, !.headersSent = TRUE]

\* Mutant: the return of line 67 is missing and the handler goes on.
RateLimitedResponse_GoesOn(me) == [me EXCEPT !.pc = "ensured"]

\* Lines 66-68 and 278-281
RateLimitedResponse(me) == Respond(me, 429, "Rate limit exceeded. Try again later.")

\* res.write(`data: ${JSON.stringify(event)}\n\n`): the first write sends the headers.
Written(me, event) ==
  [me EXCEPT !.headersSent = TRUE,
             !.status = IF me.headersSent THEN me.status ELSE 200,
             !.events = Append(me.events, event)]

\* Mutant: the catch block answers 500 without looking at headersSent.
CatchError_NoHeaderCheck(me) == Respond(me, 500, "Internal server error")

\* The catch block, lines 141-153 and 358-372.
CatchError(me) ==
  IF ~me.headersSent THEN Respond(me, 500, "Internal server error")
  ELSE [Written(me, [event |-> "error", content |-> EmptyString]) EXCEPT !.pc = "done"]

\* ensureEmbeddingsInitialized up to its await (chat.js 10-15, part_001 78-109):
\* the request, the cache and the calls issued.  With the flag set it returns
\* and the handler waits at line 77 ("ensured"); otherwise it waits at line 12
\* for initializeEmbeddings, which has returned ("initialized") or waits for
\* its first batch ("awaitInit").
EnsureStart(me, flag, cache, allChunks) ==
  IF flag
    THEN [request |-> [me EXCEPT !.pc = "ensured"], cache |-> cache, gen |-> 0, pop |-> 0]
  ELSE IF CacheHit(cache)
    THEN [request |-> [me EXCEPT !.pc = "initialized", !.viaInit = TRUE],
          cache |-> cache, gen |-> 0, pop |-> 0]
  ELSE IF ~MoreBatches(0, allChunks)
    THEN [request |-> [me EXCEPT !.pc = "initialized", !.viaInit = TRUE],
          cache |-> PopulatedCache(CombineChunks(allChunks, <<>>)), gen |-> 0, pop |-> 1]
  ELSE [request |-> [me EXCEPT !.pc = "awaitInit", !.viaInit = TRUE],
        cache |-> cache, gen |-> 1, pop |-> 0]

\* Mutant: the history is read after the user turn was added to it.
BuildMessages_AfterAppend(context, history, message) ==
  <<[role |-> "system", content |-> context]>> \o history
    \o <<[role |-> "user", content |-> message], [role |-> "user", content |-> message]>>

\* Lines 99-103: the messages sent to the completion capability.
BuildMessages(context, history, message) ==
  <<[role |-> "system", content |-> context]>> \o history
    \o <<[role |-> "user", content |-> message]>>

(***************************************************************************)
(* Start states                                                            *)
(***************************************************************************)
MemFresh ==
  /\ sessions = EmptyMap
  /\ appended = [s \in SessionIds |-> <<>>]
  /\ memOps = 0
  /\ memLast = [op |-> "none"]

RLFresh ==
  /\ requestCounts = EmptyMap
  /\ now = 0
  /\ accepted = [ip \in ClientIPs |-> <<>>]
  /\ rlLog = <<>>

EmbFresh ==
  /\ embeddingsCache = NullCache
  /\ embeddingsInitialized = FALSE
  /\ callers = [c \in Callers |-> IdleCaller]
  /\ genCalls = 0
  /\ populations = 0
  /\ embCalls = 0

CalcFresh == calc = [op |-> "none"]

RetFresh ==
  /\ retrievals = [r \in RetCallers |-> IdleRetrieval]
  /\ retCalls = 0

ChatFresh ==
  /\ handling = [r \in ChatRequests |-> IdleRequest]
  /\ queryCalls = 0
  /\ completionCalls = 0

(***************************************************************************)
(* Session Memory: specification SpecMem                                   *)
(*                                                                         *)
(* Start states: the store reached from the empty store by n <= 20         *)
(* addMessage calls per session, which holds exactly those n turns (n = 0: *)
(* the id was never referenced).  The k-th such turn has content 100 + k   *)
(* and alternates user / assistant.                                        *)
(***************************************************************************)
PrefillLens == {0, 19, 20}

PrefillTurn(k) ==
  [role |-> IF k % 2 = 1 THEN "user" ELSE "assistant", content |-> 100 + k]

PrefillTurns(n) == [k \in 1..n |-> PrefillTurn(k)]

MemInit ==
  /\ memOps = 0
  /\ memLast = [op |-> "none"]
  /\ \E n \in [SessionIds -> PrefillLens] :
       /\ sessions = [s \in {x \in SessionIds : n[x] > 0} |-> PrefillTurns(n[s])]
       /\ appended = [s \in SessionIds |-> PrefillTurns(n[s])]

DoGetSessionHistory(sessionId) ==
  /\ memOps < MaxMemOps
  /\ sessions' = SessionsAfterGet(sessions, sessionId)
  /\ memLast' = [op |-> "get", sessionId |-> sessionId,
                 created |-> sessionId \notin DOMAIN sessions,
                 result |-> GetSessionHistory(sessions, sessionId)]
  /\ memOps' = memOps + 1
  /\ UNCHANGED appended
  /\ UNCHANGED <<chatVars, rlVars, embVars, calcVars, retVars>>

DoAddMessage(sessionId, role, content) ==
  /\ memOps < MaxMemOps
  /\ sessions' = AddMessage(sessions, sessionId, role, content)
  /\ appended' = [appended EXCEPT ![sessionId] =
                    Append(@, [role |-> role, content |-> content])]
  /\ memLast' = [op |-> "add", sessionId |-> sessionId]
  /\ memOps' = memOps + 1
  /\ UNCHANGED <<chatVars, rlVars, embVars, calcVars, retVars>>

DoClearSession(sessionId) ==
  /\ memOps < MaxMemOps
  /\ sessions' = ClearSession(sessions, sessionId)
  /\ appended' = [appended EXCEPT ![sessionId] = <<>>]
  /\ memLast' = [op |-> "clear", sessionId |-> sessionId]
  /\ memOps' = memOps + 1
  /\ UNCHANGED <<chatVars, rlVars, embVars, calcVars, retVars>>

MemNext ==
  \/ \E s \in SessionIds : DoGetSessionHistory(s)
  \/ \E s \in SessionIds, r \in Roles, c \in Contents : DoAddMessage(s, r, c)
  \/ \E s \in SessionIds : DoClearSession(s)

MemSpecInit ==
  MemInit /\ RLFresh /\ EmbFresh /\ corpus = <<>> /\ CalcFresh /\ RetFresh /\ ChatFresh

SpecMem == MemSpecInit /\ [][MemNext]_vars

(***************************************************************************)
(* Rate Limiter: specification SpecRL                                      *)
(*                                                                         *)
(* Start states: the map reached from the empty map by a burst of n <= 60  *)
(* isRateLimited calls per ip at clock value 0, all of them accepted and   *)
(* recorded (n = 0: the ip was never seen).  isRateLimited and the         *)
(* sweep contain no await: each runs to completion, whichever request      *)
(* handler or timer calls it.                                              *)
(***************************************************************************)
PrefillCounts == {0, 59, 60}

PrefillStamps(n) == [k \in 1..n |-> 0]

RLInit ==
  /\ now = 0
  /\ rlLog = <<>>
  /\ \E n \in [ClientIPs -> PrefillCounts] :
       /\ requestCounts = [ip \in {x \in ClientIPs : n[x] > 0} |-> PrefillStamps(n[ip])]
       /\ accepted = [ip \in ClientIPs |-> PrefillStamps(n[ip])]

\* One call of isRateLimited(ip), d ms after the previous event.
DoIsRateLimited(ip, d) ==
  LET t == now + d
      limited == IsRateLimited(requestCounts, ip, t)
  IN  /\ Len(rlLog) < MaxRLEvents
      /\ now' = t
      /\ requestCounts' = CountsAfterCheck(requestCounts, ip, t)
      /\ accepted' = IF limited THEN accepted
                     ELSE [accepted EXCEPT ![ip] = Append(@, t)]
      /\ rlLog' = Append(rlLog, [op |-> "check", ip |-> ip, at |-> t,
                                 result |-> limited, before |-> requestCounts])
      /\ UNCHANGED <<chatVars, memVars, embVars, calcVars, retVars>>

\* One run of the periodic sweep, d ms after the previous event.
DoCleanupRateLimitData(d) ==
  LET t == now + d
  IN  /\ Len(rlLog) < MaxRLEvents
      /\ now' = t
      /\ requestCounts' = CleanupRateLimitData(requestCounts, t)
      /\ rlLog' = Append(rlLog, [op |-> "sweep", ip |-> "", at |-> t,
                                 result |-> FALSE, before |-> requestCounts])
      /\ UNCHANGED accepted
      /\ UNCHANGED <<chatVars, memVars, embVars, calcVars, retVars>>

RLNext ==
  \/ \E ip \in ClientIPs, d \in Elapsed : DoIsRateLimited(ip, d)
  \/ \E d \in Elapsed : DoCleanupRateLimitData(d)

RLSpecInit ==
  MemFresh /\ RLInit /\ EmbFresh /\ corpus = <<>> /\ CalcFresh /\ RetFresh /\ ChatFresh

SpecRL == RLSpecInit /\ [][RLNext]_vars

(***************************************************************************)
(* Embedding Store: specification SpecEmb                                  *)
(*                                                                         *)
(* Several callers (request handlers) call the initialization; a call is   *)
(* cut at `await generateEmbeddings(...)` (line 107) and at the caller's   *)
(* own `await initializeEmbeddings()` (chat.js:12, part_001:128).          *)
(***************************************************************************)
\* The synchronous start of a call: ensureEmbeddingsInitialized, getEmbeddings or
\* initializeEmbeddings up to its first await (or to its return).
EmbCall(c, via) ==
  LET me == callers[c]
      allChunks == CorpusChunks[corpus]
      locals == FreshLocals([i |-> me.i, embeddings |-> me.embeddings])
      skipsInit == \/ via = "ensure" /\ embeddingsInitialized
                   \/ via = "get" /\ embeddingsCache.set
      base == [me EXCEPT !.via = via,
                         !.i = locals.i,
                         !.embeddings = locals.embeddings,
                         !.value = <<>>,
                         !.result = "pending",
                         !.startedPopulated = embeddingsCache.set,
                         !.cacheAtStart = embeddingsCache.items,
                         !.flagAtStart = embeddingsInitialized,
                         !.gen = 0,
                         !.wrote = FALSE,
                         !.failed = FALSE,
                         !.batchesDone = 0,
                         !.prevFailedAfter =
                            IF me.result = "error" THEN me.batchesDone ELSE -1]
      emptyRun == PopulatedCache(CombineChunks(allChunks, locals.embeddings))
  IN  /\ me.pc \in {"idle", "done"}
      /\ embCalls < MaxEmbCalls
      /\ embCalls' = embCalls + 1
      /\ IF skipsInit
         THEN /\ callers' = [callers EXCEPT ![c] =
                   [base EXCEPT !.pc = "done",
                                !.value = embeddingsCache.items,
                                !.result = IF via = "ensure" THEN "ok" ELSE "value"]]
              /\ UNCHANGED <<embeddingsCache, genCalls, populations>>
         ELSE IF CacheHit(embeddingsCache)
         THEN /\ callers' = [callers EXCEPT ![c] =
                   [base EXCEPT !.pc = "resolved", !.value = embeddingsCache.items]]
              /\ UNCHANGED <<embeddingsCache, genCalls, populations>>
         ELSE IF ~MoreBatches(locals.i, allChunks)
         THEN /\ embeddingsCache' = emptyRun
              /\ populations' = populations + 1
              /\ callers' = [callers EXCEPT ![c] =
                   [base EXCEPT !.pc = "resolved", !.value = emptyRun.items,
                                !.wrote = TRUE]]
              /\ UNCHANGED genCalls
         ELSE /\ callers' = [callers EXCEPT ![c] =
                   [base EXCEPT !.pc = "awaitBatch", !.gen = 1]]
              /\ genCalls' = genCalls + 1
              /\ UNCHANGED <<embeddingsCache, populations>>
      /\ UNCHANGED <<corpus, embeddingsInitialized>>
      /\ UNCHANGED <<chatVars, memVars, rlVars, calcVars, retVars>>

\* The embedding capability answers the batch a caller waits for (lines 107-116).
EmbBatchReturn(c, answer) ==
  LET me == callers[c]
      allChunks == CorpusChunks[corpus]
      batchTexts == BatchTexts(BatchAt(allChunks, me.i))
      embeddings == PushBatch(me.embeddings, GenerateEmbeddings(batchTexts, answer))
      i == me.i + BATCH_SIZE
      filled == PopulatedCache(CombineChunks(allChunks, embeddings))
  IN  /\ me.pc = "awaitBatch"
      /\ IF MoreBatches(i, allChunks)
         THEN /\ callers' = [callers EXCEPT ![c] =
                   [me EXCEPT !.i = i, !.embeddings = embeddings,
                              !.gen = @ + 1, !.batchesDone = @ + 1]]
              /\ genCalls' = genCalls + 1
              /\ UNCHANGED <<embeddingsCache, populations>>
         ELSE /\ embeddingsCache' = filled
              /\ populations' = populations + 1
              /\ callers' = [callers EXCEPT ![c] =
                   [me EXCEPT !.i = i, !.embeddings = embeddings,
                              !.pc = "resolved", !.value = filled.items,
                              !.wrote = TRUE, !.batchesDone = @ + 1]]
              /\ UNCHANGED genCalls
      /\ UNCHANGED <<corpus, embeddingsInitialized, embCalls>>
      /\ UNCHANGED <<chatVars, memVars, rlVars, calcVars, retVars>>

\* The embedding capability fails the batch a caller waits for (lines 68-71).
EmbBatchFail(c) ==
  LET me == callers[c]
  IN  /\ me.pc = "awaitBatch"
      /\ embeddingsCache' =
           CacheAfterFailure(embeddingsCache, CorpusChunks[corpus], me.embeddings)
      /\ callers' = [callers EXCEPT ![c] = [me EXCEPT !.pc = "rejected", !.failed = TRUE]]
      /\ UNCHANGED <<corpus, embeddingsInitialized, genCalls, populations, embCalls>>
      /\ UNCHANGED <<chatVars, memVars, rlVars, calcVars, retVars>>

\* The caller's continuation after `await initializeEmbeddings()`.
EmbResume(c) ==
  LET me == callers[c]
  IN  /\ me.pc \in {"resolved", "rejected"}
      /\ IF me.pc = "rejected"
         THEN /\ callers' = [callers EXCEPT ![c] =
                   [me EXCEPT !.pc = "done", !.result = "error"]]
              /\ UNCHANGED embeddingsInitialized
         ELSE /\ callers' = [callers EXCEPT ![c] =
                   [me EXCEPT !.pc = "done",
                              !.result = IF me.via = "ensure" THEN "ok" ELSE "value",
                              !.value = IF me.via = "get" THEN embeddingsCache.items
                                        ELSE me.value]]
              /\ embeddingsInitialized' = (embeddingsInitialized \/ me.via = "ensure")
      /\ UNCHANGED <<corpus, embeddingsCache, genCalls, populations, embCalls>>
      /\ UNCHANGED <<chatVars, memVars, rlVars, calcVars, retVars>>

EmbNext ==
  \/ \E c \in Callers, via \in Vias : EmbCall(c, via)
  \/ \E c \in Callers, answer \in Answers : EmbBatchReturn(c, answer)
  \/ \E c \in Callers : EmbBatchFail(c)
  \/ \E c \in Callers : EmbResume(c)

EmbSpecInit ==
  MemFresh /\ RLFresh /\ EmbFresh /\ corpus \in Corpora /\ CalcFresh /\ RetFresh /\ ChatFresh

SpecEmb == EmbSpecInit /\ [][EmbNext]_vars

(***************************************************************************)
(* Pure functions: specification SpecCalc                                  *)
(*                                                                         *)
(* chunkText and cosineSimilarity read and write no module state; one      *)
(* application on inputs drawn from bounded sets is recorded in calc.      *)
(* chunkText is applied with 0 <= overlap < chunkSize, where its loop      *)
(* ends.                                                                   *)
(***************************************************************************)
\* Longest text chunked with explicit chunkSize and overlap.
MaxTextLength == 8

\* Largest explicit chunkSize.
MaxChunkSize == 5

\* Text lengths chunked with the default chunkSize and overlap.
DefaultTextLengths == {0, 1, 600, 601, 800, 1000, 1400}

CalcInit == calc = [op |-> "none"]

DoChunkText(length, chunkSize, overlap) ==
  /\ calc.op = "none"
  /\ calc' = [op |-> "chunkText", length |-> length, chunkSize |-> chunkSize,
              overlap |-> overlap,
              chunks |-> ChunkText(WholeText("t", length), chunkSize, overlap)]
  /\ UNCHANGED <<chatVars, memVars, rlVars, embVars, retVars>>

\* chunkText(text): chunkSize and overlap take their defaults.
DoChunkTextDefault(length) ==
  /\ calc.op = "none"
  /\ calc' = [op |-> "chunkText", length |-> length,
              chunkSize |-> DEFAULT_CHUNK_SIZE, overlap |-> DEFAULT_OVERLAP,
              chunks |-> ChunkText(WholeText("t", length),
                                   DEFAULT_CHUNK_SIZE, DEFAULT_OVERLAP)]
  /\ UNCHANGED <<chatVars, memVars, rlVars, embVars, retVars>>

DoCosineSimilarity(a, b) ==
  /\ calc.op = "none"
  /\ calc' = [op |-> "cosineSimilarity", a |-> a, b |-> b,
              similarity |-> CosineSimilarity(a, b)]
  /\ UNCHANGED <<chatVars, memVars, rlVars, embVars, retVars>>

CalcNext ==
  \/ \E length \in 0..MaxTextLength, chunkSize \in 1..MaxChunkSize :
       \E overlap \in 0..(chunkSize - 1) : DoChunkText(length, chunkSize, overlap)
  \/ \E length \in DefaultTextLengths : DoChunkTextDefault(length)
  \/ \E a \in Vectors, b \in Vectors : DoCosineSimilarity(a, b)

CalcSpecInit ==
  MemFresh /\ RLFresh /\ EmbFresh /\ corpus = <<>> /\ CalcInit /\ RetFresh /\ ChatFresh

SpecCalc == CalcSpecInit /\ [][CalcNext]_vars

(***************************************************************************)
(* The loop of chunkText, step by step: specification SpecChunkLoop        *)
(*                                                                         *)
(* calc holds the locals of one call of chunkText with 0 < overlap <       *)
(* chunkSize: start, chunks, and whether the function has returned. The    *)
(* call runs without interruption, so each of its steps is taken when it   *)
(* is enabled (weak fairness).                                             *)
(***************************************************************************)
\* Mutant: start does not advance.
NextStart_Stuck(start, chunkSize, overlap) == start + overlap - overlap

\* Line 22: start += chunkSize - overlap
NextStart(start, chunkSize, overlap) == start + chunkSize - overlap

\* Lines 16-17: the locals at the first test of the loop.
ChunkCall(length, chunkSize, overlap) ==
  [op |-> "chunkLoop", length |-> length, chunkSize |-> chunkSize,
   overlap |-> overlap, start |-> 0, chunks |-> <<>>, returned |-> FALSE]

ChunkLoopInit ==
  \E length \in 0..MaxTextLength, chunkSize \in 2..MaxChunkSize :
    \E overlap \in 1..(chunkSize - 1) : calc = ChunkCall(length, chunkSize, overlap)

\* Lines 19-23: one pass through the body of the loop.
ChunkIterate ==
  LET text == WholeText("t", calc.length)
      end == Min(calc.start + calc.chunkSize, TextLength(text))
  IN  /\ calc.op = "chunkLoop" /\ ~calc.returned
      /\ calc.start < TextLength(text)
      /\ calc' = [calc EXCEPT !.chunks = Append(@, TextSlice(text, calc.start, end)),
                              !.start = NextStart(@, calc.chunkSize, calc.overlap)]
      /\ UNCHANGED <<chatVars, memVars, rlVars, embVars, retVars>>

\* Lines 19 and 25: the test fails and chunks is returned.
ChunkReturn ==
  /\ calc.op = "chunkLoop" /\ ~calc.returned
  /\ ~(calc.start < calc.length)
  /\ calc' = [calc EXCEPT !.returned = TRUE]
  /\ UNCHANGED <<chatVars, memVars, rlVars, embVars, retVars>>

ChunkLoopNext == ChunkIterate \/ ChunkReturn

ChunkLoopSpecInit ==
  MemFresh /\ RLFresh /\ EmbFresh /\ corpus = <<>> /\ ChunkLoopInit /\ RetFresh /\ ChatFresh

SpecChunkLoop ==
  /\ ChunkLoopSpecInit /\ [][ChunkLoopNext]_vars
  /\ WF_vars(ChunkIterate) /\ WF_vars(ChunkReturn)

(***************************************************************************)
(* Retriever: specification SpecRet                                        *)
(*                                                                         *)
(* retrieveContext is cut at `await generateEmbeddings([query])` (line 32) *)
(* and at `await getEmbeddings()` (line 36); getEmbeddings at its `await   *)
(* initializeEmbeddings()` (part_001 line 128) and the initialization that *)
(* starts because the cache is still null at each of its batches.  Start   *)
(* states: the cache null, or populated by an earlier initialization whose *)
(* vectors were any of RetVectors.                                         *)
(***************************************************************************)
RetInit ==
  /\ RetFresh
  /\ corpus \in RetCorpora
  /\ embeddingsCache \in
       {NullCache} \cup
       {PopulatedCache(CombineChunks(RetCorpusChunks[corpus], vectors)) :
          vectors \in [1..Len(RetCorpusChunks[corpus]) -> RetVectors]}
  /\ embeddingsInitialized = FALSE
  /\ callers = [c \in Callers |-> IdleCaller]
  /\ genCalls = 0
  /\ populations = 0
  /\ embCalls = 0

\* The result of a call whose query vector and stored items are known (lines 38-55).
Ranked(me, queryEmbedding, embeddings) ==
  [me EXCEPT !.pc = "done",
             !.queryEmbedding = queryEmbedding,
             !.store = embeddings,
             !.selected = TopResults(queryEmbedding, embeddings, me.topK),
             !.result = ContextOf(TopResults(queryEmbedding, embeddings, me.topK)),
             !.outcome = "ranked"]

\* The result of a call in which something threw (lines 56-59).
Caught(me, failedAt) ==
  [me EXCEPT !.pc = "done", !.result = ContextOnError, !.outcome = "caught",
             !.failedAt = failedAt]

\* retrieveContext(query, topK) up to its first await.
RetCall(r, topK) ==
  /\ retrievals[r].pc \in {"idle", "done"}
  /\ retCalls < MaxRetCalls
  /\ retCalls' = retCalls + 1
  /\ retrievals' = [retrievals EXCEPT ![r] =
                      [IdleRetrieval EXCEPT !.pc = "awaitQuery", !.topK = topK]]
  /\ UNCHANGED <<chatVars, memVars, rlVars, embVars, calcVars>>

\* The texts of the batch a caller's initialization waits for.
RetBatch(r) ==
  IF retrievals[r].pc = "awaitLoad"
    THEN BatchTexts(BatchAt(RetCorpusChunks[corpus], retrievals[r].i))
  ELSE <<>>

\* The query's vector arrives (line 33) and getEmbeddings() is called: it
\* returns the array the cache holds now, or starts initializeEmbeddings
\* (part_001 lines 126-131 and 78-109), which on a corpus without chunks writes
\* the cache at once.  retrieveContext stays suspended at line 36.
RetQueryReturn(r, vector) ==
  LET me == retrievals[r]
      allChunks == RetCorpusChunks[corpus]
      locals == FreshLocals([i |-> me.i, embeddings |-> me.embeddings])
      emptyRun == PopulatedCache(CombineChunks(allChunks, locals.embeddings))
      asked == [me EXCEPT !.queryEmbedding = vector]
  IN  /\ me.pc = "awaitQuery"
      /\ IF CacheHit(embeddingsCache)
         THEN /\ retrievals' = [retrievals EXCEPT ![r] =
                                  [asked EXCEPT !.pc = "awaitGet",
                                                !.store = embeddingsCache.items]]
              /\ UNCHANGED <<embeddingsCache, genCalls, populations>>
         ELSE IF ~MoreBatches(locals.i, allChunks)
         THEN /\ embeddingsCache' = emptyRun
              /\ populations' = populations + 1
              /\ retrievals' = [retrievals EXCEPT ![r] =
                                  [asked EXCEPT !.pc = "awaitInit",
                                                !.i = locals.i,
                                                !.embeddings = locals.embeddings]]
              /\ UNCHANGED genCalls
         ELSE /\ retrievals' = [retrievals EXCEPT ![r] =
                                  [asked EXCEPT !.pc = "awaitLoad",
                                                !.i = locals.i,
                                                !.embeddings = locals.embeddings]]
              /\ genCalls' = genCalls + 1
              /\ UNCHANGED <<embeddingsCache, populations>>
      /\ UNCHANGED <<corpus, embeddingsInitialized, callers, embCalls, retCalls>>
      /\ UNCHANGED <<chatVars, memVars, rlVars, calcVars>>

\* The query embedding call fails (generateEmbeddings rethrows, part_001 68-71).
RetQueryFail(r) ==
  /\ retrievals[r].pc = "awaitQuery"
  /\ retrievals' = [retrievals EXCEPT ![r] = Caught(retrievals[r], "query")]
  /\ UNCHANGED <<chatVars, memVars, rlVars, embVars, calcVars, retCalls>>

\* A batch of the initialization started by getEmbeddings returns
\* (part_001 lines 107-119); with the last one the cache is written and
\* initializeEmbeddings returns, getEmbeddings still suspended at line 128.
RetLoadReturn(r, vectors) ==
  LET me == retrievals[r]
      allChunks == RetCorpusChunks[corpus]
      embeddings == PushBatch(me.embeddings, vectors)
      i == me.i + BATCH_SIZE
      filled == PopulatedCache(CombineChunks(allChunks, embeddings))
  IN  /\ me.pc = "awaitLoad"
      /\ IF MoreBatches(i, allChunks)
         THEN /\ retrievals' = [retrievals EXCEPT ![r] =
                                  [me EXCEPT !.i = i, !.embeddings = embeddings]]
              /\ genCalls' = genCalls + 1
              /\ UNCHANGED <<embeddingsCache, populations>>
         ELSE /\ embeddingsCache' = filled
              /\ populations' = populations + 1
              /\ retrievals' = [retrievals EXCEPT ![r] =
                                  [me EXCEPT !.i = i, !.embeddings = embeddings,
                                             !.pc = "awaitInit"]]
              /\ UNCHANGED genCalls
      /\ UNCHANGED <<corpus, embeddingsInitialized, callers, embCalls, retCalls>>
      /\ UNCHANGED <<chatVars, memVars, rlVars, calcVars>>

\* getEmbeddings goes on after `await initializeEmbeddings()` (part_001 line
\* 128): it returns the array the cache holds now (line 130; the cache, once
\* written, is never unset).  retrieveContext is still suspended at line 36.
RetGetResume(r) ==
  /\ retrievals[r].pc = "awaitInit"
  /\ retrievals' = [retrievals EXCEPT ![r] =
                      [@ EXCEPT !.pc = "awaitGet", !.store = embeddingsCache.items]]
  /\ UNCHANGED <<chatVars, memVars, rlVars, embVars, calcVars, retCalls>>

\* retrieveContext goes on after `await getEmbeddings()` (line 36): it ranks
\* the array getEmbeddings returned (lines 38-55).
RetRank(r) ==
  /\ retrievals[r].pc = "awaitGet"
  /\ retrievals' = [retrievals EXCEPT ![r] =
                      Ranked(@, retrievals[r].queryEmbedding, retrievals[r].store)]
  /\ UNCHANGED <<chatVars, memVars, rlVars, embVars, calcVars, retCalls>>

\* A batch of that initialization fails: initializeEmbeddings and getEmbeddings
\* reject, and the catch of retrieveContext takes over.
RetLoadFail(r) ==
  /\ retrievals[r].pc = "awaitLoad"
  /\ retrievals' = [retrievals EXCEPT ![r] = Caught(retrievals[r], "load")]
  /\ embeddingsCache' =
       CacheAfterFailure(embeddingsCache, RetCorpusChunks[corpus],
                         retrievals[r].embeddings)
  /\ UNCHANGED <<corpus, embeddingsInitialized, callers, genCalls, populations,
                 embCalls, retCalls>>
  /\ UNCHANGED <<chatVars, memVars, rlVars, calcVars>>

RetNext ==
  \/ \E r \in RetCallers, topK \in TopKs : RetCall(r, topK)
  \/ \E r \in RetCallers, vector \in RetVectors : RetQueryReturn(r, vector)
  \/ \E r \in RetCallers : RetQueryFail(r)
  \/ \E r \in RetCallers :
       \E vectors \in [1..Len(RetBatch(r)) -> RetVectors] : RetLoadReturn(r, vectors)
  \/ \E r \in RetCallers : RetLoadFail(r)
  \/ \E r \in RetCallers : RetGetResume(r)
  \/ \E r \in RetCallers : RetRank(r)

RetSpecInit ==
  MemFresh /\ RLFresh /\ CalcFresh /\ RetInit /\ ChatFresh

SpecRet == RetSpecInit /\ [][RetNext]_vars

(***************************************************************************)
(* Chat handler: specification SpecChat                                    *)
(*                                                                         *)
(* Each request runs the handler once.  The handler is cut at its awaits:  *)
(* initializeEmbeddings inside ensureEmbeddingsInitialized (line 12),      *)
(* ensureEmbeddingsInitialized (line 77), the query embedding inside       *)
(* retrieveContext (retriever.js line 32), retrieveContext (line 80), the  *)
(* completion call (line 115) and every chunk of the stream (line 126).    *)
(* The server starts cold (no cache, flag unset, no session); the client   *)
(* 10.0.0.1 has made 59 or 60 requests at time 0.                          *)
(***************************************************************************)
ChatPrefillCounts == {59, 60}

ChatInit ==
  /\ MemFresh
  /\ now = 0
  /\ rlLog = <<>>
  /\ \E n \in ChatPrefillCounts :
       /\ requestCounts = [ip \in {"10.0.0.1"} |-> PrefillStamps(n)]
       /\ accepted = [ip \in ClientIPs |->
                        IF ip = "10.0.0.1" THEN PrefillStamps(n) ELSE <<>>]
  /\ EmbFresh
  /\ corpus \in ChatCorpora
  /\ CalcFresh
  /\ RetFresh
  /\ ChatFresh

\* A request arrives d ms after the previous one: the handler up to its first
\* await or to its early return (lines 43-77 and 239-295).
ChatArrive(r, handler, method, apiKey, expectedKey, sessionId, clientIP, message, d) ==
  LET me == handling[r]
      t == now + d
      early == EarlyResponse(handler, method, apiKey, expectedKey, sessionId)
      limited == IsRateLimited(requestCounts, clientIP, t)
      gated == [me EXCEPT !.steps = <<"gate">>]
      ensure == EnsureStart([me EXCEPT !.sessionId = sessionId, !.message = message,
                                       !.steps = <<"gate", "ensure">>],
                            embeddingsInitialized, embeddingsCache,
                            ChatCorpusChunks[corpus])
      proceeds == early = NoResponse /\ ~limited /\ ~MessageIsInvalid(message)
  IN  /\ me.pc = "idle"
      /\ now' = t
      /\ handling' = [handling EXCEPT ![r] =
           IF early # NoResponse THEN Respond(me, early.status, early.error)
           ELSE IF limited THEN RateLimitedResponse(gated)
           ELSE IF MessageIsInvalid(message)
             THEN Respond(gated, 400, "Invalid message format")
           ELSE ensure.request]
      /\ IF early # NoResponse
           THEN UNCHANGED <<requestCounts, accepted, rlLog>>
         ELSE /\ requestCounts' = CountsAfterCheck(requestCounts, clientIP, t)
              /\ accepted' = IF limited THEN accepted
                             ELSE [accepted EXCEPT ![clientIP] = Append(@, t)]
              /\ rlLog' = Append(rlLog, [op |-> "check", ip |-> clientIP, at |-> t,
                                         result |-> limited, before |-> requestCounts])
      /\ embeddingsCache' = IF proceeds THEN ensure.cache ELSE embeddingsCache
      /\ genCalls' = IF proceeds THEN genCalls + ensure.gen ELSE genCalls
      /\ populations' = IF proceeds THEN populations + ensure.pop ELSE populations
      /\ UNCHANGED <<corpus, embeddingsInitialized, callers, embCalls>>
      /\ UNCHANGED <<queryCalls, completionCalls>>
      /\ UNCHANGED <<memVars, calcVars, retVars>>

\* The texts of the batch a request's initialization waits for.
ChatBatch(r) ==
  IF handling[r].pc = "awaitInit"
    THEN BatchTexts(BatchAt(ChatCorpusChunks[corpus], handling[r].i))
  ELSE <<>>

\* A batch of the initialization returns (part_001 lines 107-119).
ChatInitReturn(r, vectors) ==
  LET me == handling[r]
      allChunks == ChatCorpusChunks[corpus]
      embeddings == PushBatch(me.embeddings, vectors)
      i == me.i + BATCH_SIZE
  IN  /\ me.pc = "awaitInit"
      /\ IF MoreBatches(i, allChunks)
         THEN /\ handling' = [handling EXCEPT ![r] =
                               [me EXCEPT !.i = i, !.embeddings = embeddings]]
              /\ genCalls' = genCalls + 1
              /\ UNCHANGED <<embeddingsCache, populations>>
         ELSE /\ embeddingsCache' = PopulatedCache(CombineChunks(allChunks, embeddings))
              /\ populations' = populations + 1
              /\ handling' = [handling EXCEPT ![r] =
                               [me EXCEPT !.i = i, !.embeddings = embeddings,
                                          !.pc = "initialized"]]
              /\ UNCHANGED genCalls
      /\ UNCHANGED <<corpus, embeddingsInitialized, callers, embCalls>>
      /\ UNCHANGED <<queryCalls, completionCalls>>
      /\ UNCHANGED <<memVars, rlVars, calcVars, retVars>>

\* Mutant: a failed initialization marks the handler as initialized.
ChatInitFail_MarksInitialized(r) ==
  /\ handling[r].pc = "awaitInit"
  /\ embeddingsCache' = CacheAfterFailure(embeddingsCache, ChatCorpusChunks[corpus],
                                          handling[r].embeddings)
  /\ embeddingsInitialized' = TRUE
  /\ handling' = [handling EXCEPT ![r] = [@ EXCEPT !.pc = "initRejected"]]
  /\ UNCHANGED <<corpus, callers, genCalls, populations, embCalls>>
  /\ UNCHANGED <<queryCalls, completionCalls>>
  /\ UNCHANGED <<memVars, rlVars, calcVars, retVars>>

\* A batch of the initialization fails (part_001 lines 68-71): the await of
\* line 77 will throw.
ChatInitFail(r) ==
  /\ handling[r].pc = "awaitInit"
  /\ embeddingsCache' = CacheAfterFailure(embeddingsCache, ChatCorpusChunks[corpus],
                                          handling[r].embeddings)
  /\ handling' = [handling EXCEPT ![r] = [@ EXCEPT !.pc = "initRejected"]]
  /\ UNCHANGED <<corpus, embeddingsInitialized, callers, genCalls, populations,
                 embCalls>>
  /\ UNCHANGED <<queryCalls, completionCalls>>
  /\ UNCHANGED <<memVars, rlVars, calcVars, retVars>>

\* ensureEmbeddingsInitialized goes on after `await initializeEmbeddings()`
\* (line 12): the flag is set (line 13) and the function returns; the handler
\* is still suspended at line 77.
ChatSetFlag(r) ==
  /\ handling[r].pc = "initialized"
  /\ embeddingsInitialized' = TRUE
  /\ handling' = [handling EXCEPT ![r] = [@ EXCEPT !.pc = "ensured"]]
  /\ UNCHANGED <<corpus, embeddingsCache, callers, genCalls, populations, embCalls>>
  /\ UNCHANGED <<queryCalls, completionCalls>>
  /\ UNCHANGED <<memVars, rlVars, calcVars, retVars>>

\* The handler goes on after `await ensureEmbeddingsInitialized()` (line 77):
\* retrieveContext runs up to its query embedding call (retriever.js line 32);
\* or the catch block answers 500.
ChatAfterEnsure(r) ==
  LET me == handling[r]
  IN  /\ me.pc \in {"ensured", "initRejected"}
      /\ IF me.pc = "initRejected"
         THEN /\ handling' = [handling EXCEPT ![r] = CatchError(me)]
              /\ UNCHANGED queryCalls
         ELSE /\ queryCalls' = queryCalls + 1
              /\ handling' = [handling EXCEPT ![r] =
                               [me EXCEPT !.pc = "awaitQuery",
                                          !.steps = Append(@, "retrieval")]]
      /\ UNCHANGED <<corpus, embeddingsCache, embeddingsInitialized, callers,
                     genCalls, populations, embCalls>>
      /\ UNCHANGED completionCalls
      /\ UNCHANGED <<memVars, rlVars, calcVars, retVars>>

\* The query's vector arrives; getEmbeddings returns the cache, which
\* ensureEmbeddingsInitialized has populated (retriever.js lines 33-55).
ChatQueryReturn(r, vector) ==
  LET me == handling[r]
  IN  /\ me.pc = "awaitQuery"
      /\ CacheHit(embeddingsCache)
      /\ handling' = [handling EXCEPT ![r] =
           [me EXCEPT !.pc = "retrieved",
                      !.context = ContextOf(TopResults(vector, embeddingsCache.items,
                                                       DEFAULT_TOP_K))]]
      /\ UNCHANGED <<queryCalls, completionCalls>>
      /\ UNCHANGED <<memVars, rlVars, embVars, calcVars, retVars>>

\* The query embedding call fails: retrieveContext returns '' (lines 56-59).
ChatQueryFail(r) ==
  /\ handling[r].pc = "awaitQuery"
  /\ handling' = [handling EXCEPT ![r] =
       [@ EXCEPT !.pc = "retrieved", !.context = ContextOnError]]
  /\ UNCHANGED <<queryCalls, completionCalls>>
  /\ UNCHANGED <<memVars, rlVars, embVars, calcVars, retVars>>

\* The handler goes on after `await retrieveContext(message)`: history read,
\* messages built, user turn added, completion call issued (lines 83-115).
ChatCompose(r) ==
  LET me == handling[r]
      history == GetSessionHistory(sessions, me.sessionId)
  IN  /\ me.pc = "retrieved"
      /\ sessions' = AddMessage(sessions, me.sessionId, "user", me.message)
      /\ appended' = [appended EXCEPT ![me.sessionId] =
                        Append(@, [role |-> "user", content |-> me.message])]
      /\ completionCalls' = completionCalls + 1
      /\ handling' = [handling EXCEPT ![r] =
           [me EXCEPT !.pc = "awaitCreate",
                      !.messages = BuildMessages(me.context, history, me.message),
                      !.steps = @ \o <<"historyRead", "userWrite", "completion">>]]
      /\ UNCHANGED <<memOps, memLast, queryCalls>>
      /\ UNCHANGED <<rlVars, embVars, calcVars, retVars>>

\* The completion call returns its stream (line 115).
ChatCreateReturn(r) ==
  /\ handling[r].pc = "awaitCreate"
  /\ handling' = [handling EXCEPT ![r] = [@ EXCEPT !.pc = "streaming"]]
  /\ UNCHANGED <<queryCalls, completionCalls>>
  /\ UNCHANGED <<memVars, rlVars, embVars, calcVars, retVars>>

\* The completion call fails: the catch block answers.
ChatCreateFail(r) ==
  /\ handling[r].pc = "awaitCreate"
  /\ handling' = [handling EXCEPT ![r] = CatchError(@)]
  /\ UNCHANGED <<queryCalls, completionCalls>>
  /\ UNCHANGED <<memVars, rlVars, embVars, calcVars, retVars>>

\* One chunk of a stream of at most limit chunks (lines 126-132).
ChatStreamChunkOf(r, content, limit) ==
  LET me == handling[r]
      counted == [me EXCEPT !.chunks = @ + 1, !.steps = Append(@, "chunk")]
  IN  /\ me.pc = "streaming"
      /\ me.chunks < limit
      /\ handling' = [handling EXCEPT ![r] =
           IF content # EmptyString
             THEN Written([counted EXCEPT !.fullResponse = @ \o content],
                          [event |-> "content", content |-> content])
           ELSE counted]
      /\ UNCHANGED <<queryCalls, completionCalls>>
      /\ UNCHANGED <<memVars, rlVars, embVars, calcVars, retVars>>

ChatStreamChunk(r, content) == ChatStreamChunkOf(r, content, MaxStreamChunks)

\* Mutant: the catch block stores what the stream has produced so far.
ChatStreamFail_StorePartial(r) ==
  /\ handling[r].pc = "streaming"
  /\ handling' = [handling EXCEPT ![r] = CatchError(@)]
  /\ sessions' = AddMessage(sessions, handling[r].sessionId, "assistant",
                            handling[r].fullResponse)
  /\ appended' = [appended EXCEPT ![handling[r].sessionId] =
                    Append(@, [role |-> "assistant",
                               content |-> handling[r].fullResponse])]
  /\ UNCHANGED <<memOps, memLast, queryCalls, completionCalls>>
  /\ UNCHANGED <<rlVars, embVars, calcVars, retVars>>

\* The stream throws: the catch block answers.
ChatStreamFail(r) ==
  /\ handling[r].pc = "streaming"
  /\ handling' = [handling EXCEPT ![r] = CatchError(@)]
  /\ UNCHANGED <<queryCalls, completionCalls>>
  /\ UNCHANGED <<memVars, rlVars, embVars, calcVars, retVars>>

\* Mutant: the done event is written before the assistant turn is added.
ChatStreamEnd_DoneFirst(r) ==
  LET me == handling[r]
  IN  /\ me.pc = "streaming"
      /\ sessions' = AddMessage(sessions, me.sessionId, "assistant", me.fullResponse)
      /\ appended' = [appended EXCEPT ![me.sessionId] =
                        Append(@, [role |-> "assistant", content |-> me.fullResponse])]
      /\ handling' = [handling EXCEPT ![r] =
           [Written([me EXCEPT !.steps = @ \o <<"doneEvent", "assistantWrite">>],
                    [event |-> "done", content |-> EmptyString]) EXCEPT !.pc = "done"]]
      /\ UNCHANGED <<memOps, memLast, queryCalls, completionCalls>>
      /\ UNCHANGED <<rlVars, embVars, calcVars, retVars>>

\* The stream ends: assistant turn added, done event written (lines 135-139).
ChatStreamEnd(r) ==
  LET me == handling[r]
  IN  /\ me.pc = "streaming"
      /\ sessions' = AddMessage(sessions, me.sessionId, "assistant", me.fullResponse)
      /\ appended' = [appended EXCEPT ![me.sessionId] =
                        Append(@, [role |-> "assistant", content |-> me.fullResponse])]
      /\ handling' = [handling EXCEPT ![r] =
           [Written([me EXCEPT !.steps = @ \o <<"assistantWrite", "doneEvent">>],
                    [event |-> "done", content |-> EmptyString]) EXCEPT !.pc = "done"]]
      /\ UNCHANGED <<memOps, memLast, queryCalls, completionCalls>>
      /\ UNCHANGED <<rlVars, embVars, calcVars, retVars>>

ChatNext ==
  \/ \E r \in ChatRequests, handler \in Handlers, method \in Methods,
        apiKey \in ApiKeys, expectedKey \in ExpectedKeys, sessionId \in SessionIds,
        clientIP \in ClientIPs, d \in ChatElapsed :
       \E message \in ChatMessages(r) :
         ChatArrive(r, handler, method, apiKey, expectedKey, sessionId, clientIP,
                    message, d)
  \/ \E r \in ChatRequests :
       \E vectors \in [1..Len(ChatBatch(r)) -> ChatVectors] : ChatInitReturn(r, vectors)
  \/ \E r \in ChatRequests : ChatInitFail(r)
  \/ \E r \in ChatRequests : ChatSetFlag(r)
  \/ \E r \in ChatRequests : ChatAfterEnsure(r)
  \/ \E r \in ChatRequests, vector \in ChatVectors : ChatQueryReturn(r, vector)
  \/ \E r \in ChatRequests : ChatQueryFail(r)
  \/ \E r \in ChatRequests : ChatCompose(r)
  \/ \E r \in ChatRequests : ChatCreateReturn(r)
  \/ \E r \in ChatRequests : ChatCreateFail(r)
  \/ \E r \in ChatRequests, content \in StreamContents : ChatStreamChunk(r, content)
  \/ \E r \in ChatRequests : ChatStreamFail(r)
  \/ \E r \in ChatRequests : ChatStreamEnd(r)

SpecChat == ChatInit /\ [][ChatNext]_vars

\* The steps of request r after its arrival: an awaited call returns or
\* fails, or the handler goes on from where it was resumed.
ChatProgress(r) ==
  \/ \E vectors \in [1..Len(ChatBatch(r)) -> ChatVectors] : ChatInitReturn(r, vectors)
  \/ ChatInitFail(r)
  \/ ChatSetFlag(r)
  \/ ChatAfterEnsure(r)
  \/ \E vector \in ChatVectors : ChatQueryReturn(r, vector)
  \/ ChatQueryFail(r)
  \/ ChatCompose(r)
  \/ ChatCreateReturn(r)
  \/ ChatCreateFail(r)
  \/ \E content \in StreamContents : ChatStreamChunk(r, content)
  \/ ChatStreamFail(r)
  \/ ChatStreamEnd(r)

\* One request on the cold server, where every awaited call eventually returns
\* or fails and the resumed handler runs on: the request never stays for ever
\* where it can take a step.
LiveNext ==
  \/ \E handler \in Handlers, method \in Methods,
        apiKey \in ApiKeys, expectedKey \in ExpectedKeys, sessionId \in SessionIds,
        clientIP \in ClientIPs, d \in ChatElapsed :
       \E message \in ChatMessages("c1") :
         ChatArrive("c1", handler, method, apiKey, expectedKey, sessionId, clientIP,
                    message, d)
  \/ ChatProgress("c1")

SpecLive == ChatInit /\ [][LiveNext]_vars /\ WF_vars(ChatProgress("c1"))

(***************************************************************************)
(* Chat handler on a warm server: specification SpecWarm                   *)
(*                                                                         *)
(* The same handler, started in a state that earlier requests have left:   *)
(* the cache holds the one chunk of the corpus, the flag is set and the    *)
(* session s1 holds 19 or 20 turns.  No initialization runs any more.      *)
(***************************************************************************)
WarmPrefillLens == {19, 20}

\* The k-th turn earlier requests have left in the session.
WarmTurn(k) ==
  [role |-> IF k % 2 = 1 THEN "user" ELSE "assistant",
   content |-> <<[kind |-> "old", turn |-> k]>>]

WarmTurns(n) == [k \in 1..n |-> WarmTurn(k)]

WarmInit ==
  /\ memOps = 0
  /\ memLast = [op |-> "none"]
  /\ \E n \in WarmPrefillLens :
       /\ sessions = [s \in {"s1"} |-> WarmTurns(n)]
       /\ appended = [s \in SessionIds |-> IF s = "s1" THEN WarmTurns(n) ELSE <<>>]
  /\ RLFresh
  /\ corpus = <<DataFile(1, 500)>>
  /\ embeddingsCache =
       PopulatedCache(CombineChunks(ChatCorpusChunks[corpus], <<Vec(1, 0)>>))
  /\ embeddingsInitialized = TRUE
  /\ callers = [c \in Callers |-> IdleCaller]
  /\ genCalls = 1
  /\ populations = 1
  /\ embCalls = 0
  /\ CalcFresh
  /\ RetFresh
  /\ ChatFresh

WarmNext ==
  \/ \E r \in ChatRequests, handler \in Handlers, method \in Methods,
        apiKey \in ApiKeys, expectedKey \in ExpectedKeys, sessionId \in SessionIds,
        clientIP \in ClientIPs, d \in ChatElapsed :
       \E message \in ChatMessages(r) :
         ChatArrive(r, handler, method, apiKey, expectedKey, sessionId, clientIP,
                    message, d)
  \/ \E r \in ChatRequests : ChatAfterEnsure(r)
  \/ \E r \in ChatRequests, vector \in ChatVectors : ChatQueryReturn(r, vector)
  \/ \E r \in ChatRequests : ChatQueryFail(r)
  \/ \E r \in ChatRequests : ChatCompose(r)
  \/ \E r \in ChatRequests : ChatCreateReturn(r)
  \/ \E r \in ChatRequests : ChatCreateFail(r)
  \/ \E r \in ChatRequests, content \in StreamContents : ChatStreamChunk(r, content)
  \/ \E r \in ChatRequests : ChatStreamFail(r)
  \/ \E r \in ChatRequests : ChatStreamEnd(r)

SpecWarm == WarmInit /\ [][WarmNext]_vars

(***************************************************************************)
(* One request with a longer stream: specification SpecStream              *)
(*                                                                         *)
(* A single request on the warm server whose completion stream delivers up *)
(* to MaxLongStream chunks, each of them empty or one of two tokens.       *)
(***************************************************************************)
\* Bound on the chunks of the stream.
MaxLongStream == 3

\* chunk.choices[0]?.delta?.content || '' (line 127)
LongStreamContents == {EmptyString, <<[kind |-> "token"]>>, <<[kind |-> "more"]>>}

StreamNext ==
  \/ \E handler \in Handlers, method \in Methods,
        apiKey \in ApiKeys, expectedKey \in ExpectedKeys, sessionId \in SessionIds,
        clientIP \in ClientIPs, d \in ChatElapsed :
       \E message \in ChatMessages("c1") :
         ChatArrive("c1", handler, method, apiKey, expectedKey, sessionId, clientIP,
                    message, d)
  \/ ChatAfterEnsure("c1")
  \/ \E vector \in ChatVectors : ChatQueryReturn("c1", vector)
  \/ ChatQueryFail("c1")
  \/ ChatCompose("c1")
  \/ ChatCreateReturn("c1")
  \/ ChatCreateFail("c1")
  \/ \E content \in LongStreamContents : ChatStreamChunkOf("c1", content, MaxLongStream)
  \/ ChatStreamFail("c1")
  \/ ChatStreamEnd("c1")

SpecStream == WarmInit /\ [][StreamNext]_vars

(***************************************************************************)
(* Properties                                                              *)
(***************************************************************************)

(***************************************************************************)
(* C1: every session's history has length <= 20 and equals the most recent *)
(* min(n, 20) turns appended to it, in append order (the oldest turn is    *)
(* the one evicted).                                                       *)
(***************************************************************************)
C1_HistoryIsLastTwenty ==
  \A s \in SessionIds :
    /\ s \in DOMAIN sessions =>
         /\ Len(sessions[s]) <= MAX_MESSAGES_PER_SESSION
         /\ Len(sessions[s]) = Min(Len(appended[s]), MAX_MESSAGES_PER_SESSION)
         /\ sessions[s] = LastN(appended[s], MAX_MESSAGES_PER_SESSION)
    /\ s \notin DOMAIN sessions => appended[s] = <<>>

\* A session that received more than 21 appends, the last step an addMessage on it.
C1_Witness ==
  /\ memLast.op = "add"
  /\ Len(appended[memLast.sessionId]) > MAX_MESSAGES_PER_SESSION + 1
  /\ Len(sessions[memLast.sessionId]) = MAX_MESSAGES_PER_SESSION

(***************************************************************************)
(* Helpers of the Rate Limiter properties.                                 *)
(***************************************************************************)
\* The map as the k-th logged event left it.
RLAfter(k) == IF k < Len(rlLog) THEN rlLog[k + 1].before ELSE requestCounts

\* The list the k-th logged event found stored for its ip (none: empty).
RLStored(k) ==
  IF rlLog[k].ip \in DOMAIN rlLog[k].before THEN rlLog[k].before[rlLog[k].ip] ELSE <<>>

\* The timestamps of a list that are less than one window older than t, in order.
StillValidAt(list, t) == SelectSeq(list, LAMBDA x : x + 60000 > t)

Earliest(list) == CHOOSE x \in {list[i] : i \in 1..Len(list)} :
                     \A i \in 1..Len(list) : x <= list[i]

RLChecks == {k \in 1..Len(rlLog) : rlLog[k].op = "check"}

RLSweeps == {k \in 1..Len(rlLog) : rlLog[k].op = "sweep"}

(***************************************************************************)
(* C2: isRateLimited(key) at time now returns true exactly when the key    *)
(* has at least 60 stored timestamps t with now - t < 60000, and then      *)
(* records nothing; otherwise it returns false and the key's stored list   *)
(* becomes the still-valid timestamps followed by now.                     *)
(***************************************************************************)
C2_CheckContract ==
  \A k \in RLChecks :
    LET e == rlLog[k]
        valid == StillValidAt(RLStored(k), e.at)
    IN  /\ e.result <=> (Len(valid) >= 60)
        /\ e.ip \in DOMAIN RLAfter(k)
        /\ e.result => RLAfter(k)[e.ip] = RLStored(k)
        /\ ~e.result => RLAfter(k)[e.ip] = Append(valid, e.at)

\* A rejected call, and an accepted call that dropped some expired timestamps and
\* kept others.
C2_Witness ==
  /\ \E k \in RLChecks : rlLog[k].result
  /\ \E k \in RLChecks :
       /\ ~rlLog[k].result
       /\ Len(StillValidAt(RLStored(k), rlLog[k].at)) \in 1..(Len(RLStored(k)) - 1)

(***************************************************************************)
(* C3: for every key and every time T, at most 60 isRateLimited calls of   *)
(* the key returned false with a timestamp in (T - 60000, T]; of two       *)
(* requests of one key arriving together when one slot is left, only one   *)
(* passes.  (The count over (T - 60000, T] is largest when T is the        *)
(* timestamp of an accepted call, so these T and the clock are checked.)   *)
(***************************************************************************)
C3_AtMostSixtyPerWindow ==
  \A ip \in ClientIPs :
    \A T \in {accepted[ip][i] : i \in 1..Len(accepted[ip])} \cup {now} :
      Cardinality({i \in 1..Len(accepted[ip]) :
                     T - 60000 < accepted[ip][i] /\ accepted[ip][i] <= T}) <= 60

\* Two calls of one key in the same millisecond with one slot left: the first
\* passed, the second was rejected.
C3_Witness ==
  \E k \in RLChecks :
    /\ (k + 1) \in RLChecks
    /\ rlLog[k + 1].ip = rlLog[k].ip
    /\ rlLog[k + 1].at = rlLog[k].at
    /\ Len(StillValidAt(RLStored(k), rlLog[k].at)) = 59
    /\ ~rlLog[k].result
    /\ rlLog[k + 1].result

(***************************************************************************)
(* C4: for a key holding exactly 60 stored timestamps, a check at time now *)
(* is rejected while all 60 satisfy now - t < 60000 and accepted once the  *)
(* earliest is at least 60000 ms old; rejected checks in between do not    *)
(* extend the block: after a rejection that found t0 the earliest          *)
(* timestamp, the first check at or after t0 + 60000 is accepted.          *)
(***************************************************************************)
C4_SlidingWindowExpiry ==
  /\ \A k \in RLChecks :
       Len(RLStored(k)) = 60 =>
         /\ (\A i \in 1..60 : rlLog[k].at - RLStored(k)[i] < 60000) => rlLog[k].result
         /\ (rlLog[k].at - Earliest(RLStored(k)) >= 60000) => ~rlLog[k].result
  /\ \A k \in RLChecks, j \in RLChecks :
       ( /\ k < j
         /\ rlLog[j].ip = rlLog[k].ip
         /\ Len(RLStored(k)) = 60
         /\ rlLog[k].result
         /\ rlLog[j].at - Earliest(RLStored(k)) >= 60000
         /\ \A m \in RLChecks : (k < m /\ m < j /\ rlLog[m].ip = rlLog[k].ip) =>
                                   /\ rlLog[m].result
                                   /\ rlLog[m].at - Earliest(RLStored(k)) < 60000 )
       => ~rlLog[j].result

\* A key with 60 timestamps: rejected, rejected again 59999 ms after the earliest,
\* accepted exactly 60000 ms after it.
C4_Witness ==
  /\ Len(rlLog) >= 3
  /\ {1, 2, 3} \subseteq RLChecks
  /\ rlLog[1].ip = rlLog[2].ip /\ rlLog[2].ip = rlLog[3].ip
  /\ Len(RLStored(1)) = 60
  /\ rlLog[1].result
  /\ rlLog[2].result /\ rlLog[2].at - Earliest(RLStored(1)) = 59999
  /\ ~rlLog[3].result /\ rlLog[3].at - Earliest(RLStored(1)) = 60000

(***************************************************************************)
(* C5: when isRateLimited rejects, the rate-window map is exactly as it    *)
(* was before the call: no timestamp added or removed for the key, and no  *)
(* other key's entry changed.                                              *)
(***************************************************************************)
C5_RejectLeavesMapUnchanged ==
  \A k \in RLChecks : rlLog[k].result => RLAfter(k) = rlLog[k].before

\* A rejected call made while the map also held another key's entry.
C5_Witness ==
  \E k \in RLChecks :
    /\ rlLog[k].result
    /\ DOMAIN rlLog[k].before = ClientIPs
    /\ k > 1

(***************************************************************************)
(* C6: a sweep at time now removes no timestamp t with now - t < 60000; it *)
(* deletes a key's entry only when the key has no such timestamp, and      *)
(* otherwise keeps exactly the key's still-valid timestamps, in order.     *)
(***************************************************************************)
C6_SweepKeepsValid ==
  \A k \in RLSweeps :
    /\ DOMAIN RLAfter(k) \subseteq DOMAIN rlLog[k].before
    /\ \A ip \in DOMAIN rlLog[k].before :
         LET valid == StillValidAt(rlLog[k].before[ip], rlLog[k].at)
         IN  /\ ip \notin DOMAIN RLAfter(k) <=> valid = <<>>
             /\ ip \in DOMAIN RLAfter(k) => RLAfter(k)[ip] = valid

\* A sweep that deleted one key and trimmed another key's list without emptying it.
C6_Witness ==
  \E k \in RLSweeps :
    /\ \E ip \in DOMAIN rlLog[k].before : ip \notin DOMAIN RLAfter(k)
    /\ \E ip \in DOMAIN RLAfter(k) :
         Len(RLAfter(k)[ip]) < Len(rlLog[k].before[ip])

(***************************************************************************)
(* C7: when several callers trigger the embedding initialization before    *)
(* the first has completed, exactly one embedding-generation call sequence *)
(* runs and the cache is populated exactly once; the others wait for it.   *)
(***************************************************************************)
C7_SingleFlight ==
  /\ Cardinality({c \in Callers : callers[c].pc = "awaitBatch"}) <= 1
  /\ populations <= 1

(***************************************************************************)
(* C8: a call of initializeEmbeddings or getEmbeddings that starts when    *)
(* the cache is populated makes no embedding-generation call, leaves the   *)
(* cache as it is and returns the cached collection.                       *)
(***************************************************************************)
C8_PopulatedCallIsNoOp ==
  \A c \in Callers :
    LET me == callers[c]
    IN  (me.pc # "idle" /\ me.startedPopulated) =>
          /\ me.gen = 0
          /\ ~me.wrote
          /\ ~me.failed
          /\ me.pc \in {"resolved", "done"}
          /\ me.via \in {"get", "init"} => me.value = me.cacheAtStart

\* A finished call that found a non-empty cache which an earlier run had generated.
C8_Witness ==
  \E c \in Callers :
    /\ callers[c].pc = "done"
    /\ callers[c].startedPopulated
    /\ callers[c].via \in {"get", "init"}
    /\ callers[c].result = "value"
    /\ Len(callers[c].value) > 0
    /\ genCalls > 0

(***************************************************************************)
(* C9: if the embedding-generation call fails for a batch, the failure is  *)
(* propagated to the caller, the failed run stores nothing (the cache is   *)
(* null until a run completes, and never a partial collection), and a      *)
(* later run starts again from the first batch.                            *)
(***************************************************************************)
C9_FailureLeavesNoPartialCache ==
  /\ \A c \in Callers :
       LET me == callers[c]
       IN  /\ me.failed => ~me.wrote /\ me.pc \in {"rejected", "done"}
           /\ (me.failed /\ me.pc = "done") => me.result = "error"
           /\ me.pc = "awaitBatch" =>
                /\ me.i = 100 * me.batchesDone
                /\ Len(me.embeddings) = me.i
  /\ embeddingsCache.set <=> populations > 0
  /\ ~embeddingsCache.set => embeddingsCache.items = <<>>
  /\ embeddingsCache.set => Len(embeddingsCache.items) = Len(CorpusChunks[corpus])

\* A caller whose previous call failed after a first batch had succeeded, now
\* waiting for the first batch again, the cache still null.
C9_Witness ==
  \E c \in Callers :
    /\ callers[c].pc = "awaitBatch"
    /\ callers[c].prevFailedAfter >= 1
    /\ callers[c].i = 0
    /\ callers[c].embeddings = <<>>
    /\ ~embeddingsCache.set

(***************************************************************************)
(* C10: after a successful initialization of a corpus producing N chunks,  *)
(* the cache has N entries and entry i holds the text and source of the    *)
(* i-th chunk (files in load order, chunks in file order) with the vector  *)
(* returned for that chunk, whether or not 100 divides N.                  *)
(***************************************************************************)
\* The chunk places of a corpus: <<d, k>> for the k-th window (from 0) of file d.
\* Window k of a file of L characters exists when k * 600 < L.
ChunkPlaces(dataFiles) ==
  UNION { { <<d, k>> : k \in {j \in 0..(dataFiles[d].content.to \div 600) :
                                  j * 600 < dataFiles[d].content.to} } :
          d \in 1..Len(dataFiles) }

\* The position in the collection of chunk place p.
PlaceIndex(dataFiles, p) ==
  Cardinality({q \in ChunkPlaces(dataFiles) :
                 q[1] < p[1] \/ (q[1] = p[1] /\ q[2] <= p[2])})

\* The text of chunk place p: characters [600 k, min(600 k + 800, L)) of file d.
PlaceText(dataFiles, p) ==
  [doc |-> dataFiles[p[1]].filename,
   from |-> 600 * p[2],
   to |-> Min(600 * p[2] + 800, dataFiles[p[1]].content.to)]

ExpectedPlaces == [dataFiles \in Corpora |-> ChunkPlaces(dataFiles)]

ExpectedIndex ==
  [dataFiles \in Corpora |->
     [p \in ChunkPlaces(dataFiles) |-> PlaceIndex(dataFiles, p)]]

C10_CacheMatchesChunks ==
  embeddingsCache.set =>
    /\ Len(embeddingsCache.items) = Cardinality(ExpectedPlaces[corpus])
    /\ \A p \in ExpectedPlaces[corpus] :
         LET item == embeddingsCache.items[ExpectedIndex[corpus][p]]
         IN  /\ item.text = PlaceText(corpus, p)
             /\ item.source = corpus[p[1]].filename
             /\ item.embedding.of = item.text

\* A cache of 101 entries: a full batch followed by a batch of one.
C10_Witness ==
  /\ embeddingsCache.set
  /\ Len(embeddingsCache.items) = 101
  /\ populations = 1

(***************************************************************************)
(* C11: retrieveContext never propagates a failure.  A finished call whose *)
(* query embedding call failed, or whose loading of the stored embeddings  *)
(* failed, has returned the empty string, and so has a call that ranked an *)
(* initialized but empty store.                                            *)
(***************************************************************************)
C11_FailureGivesEmptyContext ==
  \A r \in RetCallers :
    retrievals[r].pc = "done" =>
      /\ retrievals[r].outcome \in {"ranked", "caught"}
      /\ retrievals[r].failedAt \in {"query", "load"} =>
            /\ retrievals[r].outcome = "caught"
            /\ retrievals[r].result = EmptyString
      /\ (retrievals[r].outcome = "ranked" /\ retrievals[r].store = <<>>) =>
            retrievals[r].result = EmptyString

\* A call has finished after the initialization started by getEmbeddings failed.
C11_Witness ==
  \E r \in RetCallers :
    /\ retrievals[r].pc = "done"
    /\ retrievals[r].failedAt = "load"
    /\ retrievals[r].result = EmptyString
    /\ ~embeddingsCache.set

\* x < y as numbers: false when one of them is NaN.
SimLess(x, y) == x.kind # "nan" /\ y.kind # "nan" /\ DoubleLess(x, y)

\* The finished calls of retrieveContext that ranked the store.
RankedCalls ==
  {r \in RetCallers : retrievals[r].pc = "done" /\ retrievals[r].outcome = "ranked"}

\* The similarity of every stored item to the query of call r, in store order.
AllSimilarities(r) == Similarities(retrievals[r].queryEmbedding, retrievals[r].store)

(***************************************************************************)
(* C12: a call over a store of N chunks selects exactly min(topK, N) of    *)
(* its chunks, in non-increasing order of similarity, chunks of equal      *)
(* similarity in store order, and no unselected chunk is more similar to   *)
(* the query than a selected one.                                          *)
(***************************************************************************)
C12_TopKOrdered ==
  \A r \in RankedCalls :
    LET selected == retrievals[r].selected
        all == AllSimilarities(r)
    IN  /\ Len(selected) = Min(retrievals[r].topK, Len(retrievals[r].store))
        /\ \A i \in 1..Len(selected) : selected[i] = all[selected[i].index + 1]
        /\ \A i \in 1..Len(selected), j \in 1..Len(selected) :
              i < j =>
                /\ ~SimLess(selected[i].similarity, selected[j].similarity)
                /\ selected[i].similarity = selected[j].similarity =>
                      selected[i].index < selected[j].index
        /\ \A u \in 1..Len(all) :
              (\A i \in 1..Len(selected) : selected[i].index # all[u].index) =>
                 \A i \in 1..Len(selected) :
                    ~SimLess(selected[i].similarity, all[u].similarity)

(***************************************************************************)
(* C13: when the query vector or a stored vector has zero magnitude, the   *)
(* similarity computed for that pair is the fallback value 0, and the      *)
(* selected chunks whose similarity does not involve a zero-magnitude      *)
(* vector are still in descending order of similarity.                     *)
(***************************************************************************)
C13_ZeroMagnitudeFallback ==
  \A r \in RankedCalls :
    LET selected == retrievals[r].selected
        all == AllSimilarities(r)
        zeroPair(u) == \/ NormA(retrievals[r].queryEmbedding) = 0
                       \/ NormA(retrievals[r].store[u].embedding) = 0
    IN  /\ \A u \in 1..Len(all) : zeroPair(u) => all[u].similarity = Zero
        /\ \A i \in 1..Len(selected), j \in 1..Len(selected) :
              (i < j /\ ~zeroPair(selected[i].index + 1)
                     /\ ~zeroPair(selected[j].index + 1)) =>
                 ~DoubleLess(selected[i].similarity, selected[j].similarity)

\* The application of chunkText recorded in calc had 0 < overlap < chunkSize.
ChunkedWithOverlap == calc.op = "chunkText" /\ 0 < calc.overlap

\* size - overlap, the distance between the starts of consecutive windows
ChunkStep == calc.chunkSize - calc.overlap

\* The k-th window (k = 0, 1, ...) the claim describes.
ClaimedWindow(k) ==
  [doc |-> "t", from |-> k * ChunkStep,
   to |-> Min(k * ChunkStep + calc.chunkSize, calc.length)]

\* The characters of the text (by position) that lie in the k-th chunk returned.
ChunkPositions(k) ==
  {p \in 0..(calc.length - 1) : calc.chunks[k].from <= p /\ p < calc.chunks[k].to}

\* The number of characters the k-th and the (k+1)-th chunk returned share.
SharedCount(k) == Cardinality(ChunkPositions(k) \cap ChunkPositions(k + 1))

\* Number, place, coverage and length of the windows.
ChunkWindowsAsClaimed ==
  /\ Len(calc.chunks) = (calc.length + ChunkStep - 1) \div ChunkStep
  /\ \A k \in 1..Len(calc.chunks) : calc.chunks[k] = ClaimedWindow(k - 1)
  /\ \A p \in 0..(calc.length - 1) : \E k \in 1..Len(calc.chunks) : p \in ChunkPositions(k)
  /\ \A k \in 1..Len(calc.chunks) : Cardinality(ChunkPositions(k)) <= calc.chunkSize

(***************************************************************************)
(* C14 as stated: for 0 < overlap < size chunkText returns                 *)
(* ceil(L / (size - overlap)) windows, the k-th being                      *)
(* [k (size - overlap), min(k (size - overlap) + size, L)); they cover     *)
(* [0, L), none is longer than size, and every pair of consecutive windows *)
(* other than the pair ending in the last window shares exactly overlap    *)
(* characters.                                                             *)
(***************************************************************************)
C14_ChunkWindows ==
  ChunkedWithOverlap =>
    /\ ChunkWindowsAsClaimed
    /\ \A k \in 1..(Len(calc.chunks) - 2) : SharedCount(k) = calc.overlap

(***************************************************************************)
(* C14 amended: the same number, place, coverage and length of windows;    *)
(* a pair of consecutive windows shares exactly overlap characters when    *)
(* its earlier window has the full length size, and otherwise (the earlier *)
(* window is cut short by the end of the text) it shares the whole later   *)
(* window.                                                                 *)
(***************************************************************************)
C14_ChunkWindowsAmended ==
  ChunkedWithOverlap =>
    /\ ChunkWindowsAsClaimed
    /\ \A k \in 1..(Len(calc.chunks) - 1) :
          IF Cardinality(ChunkPositions(k)) = calc.chunkSize
            THEN SharedCount(k) = calc.overlap
          ELSE SharedCount(k) = Cardinality(ChunkPositions(k + 1))

\* A text chunked with an overlap larger than half the window: a pair that does
\* not end in the last window has an earlier window cut short by the end of the text.
C14_Witness ==
  /\ ChunkedWithOverlap
  /\ \E k \in 1..(Len(calc.chunks) - 2) :
        /\ Cardinality(ChunkPositions(k)) < calc.chunkSize
        /\ SharedCount(k) < calc.overlap

\* A step that is one Session Memory operation; memLast' describes it.
MemOperation == memOps' = memOps + 1

(***************************************************************************)
(* C15: getSessionHistory with an id the store does not hold creates an    *)
(* empty session for it (the session count grows by one) and returns the   *)
(* empty history; a session leaves the store only by clearSession on its   *)
(* id.                                                                     *)
(***************************************************************************)
C15_GetCreatesOnlyClearRemoves ==
  [][MemOperation =>
       \A s \in SessionIds :
         /\ (memLast'.op = "get" /\ memLast'.sessionId = s /\ s \notin DOMAIN sessions) =>
               /\ s \in DOMAIN sessions'
               /\ sessions'[s] = <<>>
               /\ memLast'.result = <<>>
               /\ GetSessionCount(sessions') = GetSessionCount(sessions) + 1
         /\ (s \in DOMAIN sessions /\ s \notin DOMAIN sessions') =>
               memLast'.op = "clear" /\ memLast'.sessionId = s]_vars

\* getSessionHistory has just created a session, next to an older session.
C15_Witness ==
  /\ memLast.op = "get"
  /\ memLast.created
  /\ sessions[memLast.sessionId] = <<>>
  /\ GetSessionCount(sessions) = 2

(***************************************************************************)
(* C16: an operation on one session id leaves every other session as it    *)
(* was: neither created, nor removed, nor changed.                         *)
(***************************************************************************)
C16_OtherSessionsUntouched ==
  [][MemOperation =>
       \A s \in SessionIds \ {memLast'.sessionId} :
         /\ s \in DOMAIN sessions' <=> s \in DOMAIN sessions
         /\ s \in DOMAIN sessions => sessions'[s] = sessions[s]]_vars

\* A session was cleared, or given a turn, while another session holds 20 turns.
C16_Witness ==
  /\ memLast.op \in {"add", "clear"}
  /\ \E s \in DOMAIN sessions :
        s # memLast.sessionId /\ Len(sessions[s]) = MAX_MESSAGES_PER_SESSION

(***************************************************************************)
(* C17: the empty string is a session id like any other: get and add       *)
(* store under it, clear removes it, its history is the last               *)
(* min(n, 20) turns appended under it and nothing else.                    *)
(***************************************************************************)
C17_EmptyIdIsAKey ==
  /\ "" \in DOMAIN sessions =>
        /\ Len(sessions[""]) <= MAX_MESSAGES_PER_SESSION
        /\ sessions[""] = LastN(appended[""], MAX_MESSAGES_PER_SESSION)
  /\ "" \notin DOMAIN sessions => appended[""] = <<>>
  /\ (memLast.op \in {"get", "add"} /\ memLast.sessionId = "") => "" \in DOMAIN sessions
  /\ (memLast.op = "get" /\ memLast.sessionId = "") => memLast.result = sessions[""]
  /\ (memLast.op = "clear" /\ memLast.sessionId = "") => "" \notin DOMAIN sessions

\* The 21st turn was appended under the empty id; another session exists too.
C17_Witness ==
  /\ memLast.op = "add"
  /\ memLast.sessionId = ""
  /\ Len(appended[""]) = MAX_MESSAGES_PER_SESSION + 1
  /\ Len(sessions[""]) = MAX_MESSAGES_PER_SESSION
  /\ "s1" \in DOMAIN sessions
  /\ sessions["s1"] # sessions[""]

\* The double 1.
One == [kind |-> "num", sign |-> 1, mant |-> BigOfLimbs(<<0, 0, 0, 1024>>), exp |-> -52]

\* cosineSimilarity was applied to two non-zero vectors.
SimilarityOfNonZero ==
  calc.op = "cosineSimilarity" /\ NormA(calc.a) # 0 /\ NormA(calc.b) # 0

(***************************************************************************)
(* C19: for non-zero vectors a and b of equal dimension the computed       *)
(* similarity lies in [-1, 1], and the similarity of a non-zero vector     *)
(* with itself is 1.                                                       *)
(***************************************************************************)
C19_SimilarityInUnitRange ==
  SimilarityOfNonZero =>
    /\ calc.similarity.kind # "nan"
    /\ calc.similarity.kind = "zero" \/ ~MagnitudeLess(One, calc.similarity)
    /\ calc.a = calc.b => calc.similarity = One

\* The place in the claimed order of a step of the handler: rate-limiter gate,
\* retrieval, history read, completion streaming, session writes.
StepRank(step) ==
  CASE step \in {"gate", "ensure"} -> 1
    [] step = "retrieval" -> 2
    [] step = "historyRead" -> 3
    [] step \in {"completion", "chunk"} -> 4
    [] step \in {"userWrite", "assistantWrite"} -> 5
    [] step = "doneEvent" -> 6

(***************************************************************************)
(* C18: the steps of a chat request happen in the order rate-limiter gate, *)
(* retrieval, session history read, completion streaming, session writes;  *)
(* while the completion stream of a request is in progress the session     *)
(* history holds neither its user turn nor its assistant turn.             *)
(***************************************************************************)
C18_WritesAfterStreaming ==
  \A r \in ChatRequests :
    /\ \A i, j \in 1..Len(handling[r].steps) :
          i < j => StepRank(handling[r].steps[i]) <= StepRank(handling[r].steps[j])
    /\ handling[r].pc = "streaming" =>
          /\ \A i \in 1..Len(handling[r].steps) :
                handling[r].steps[i] \notin {"userWrite", "assistantWrite"}
          /\ \A k \in 1..Len(sessions[handling[r].sessionId]) :
                sessions[handling[r].sessionId][k].content # handling[r].message

\* The step of a chat request in which the rate limiter rejects it.
RejectedByLimiter(r) ==
  /\ handling[r].pc = "idle"
  /\ handling'[r] # handling[r]
  /\ Len(rlLog') = Len(rlLog) + 1
  /\ rlLog'[Len(rlLog')].result

(***************************************************************************)
(* C20: a chat request that the rate limiter rejects is answered with      *)
(* status 429 and changes nothing else: no embedding-generation call, no   *)
(* completion call, no session created, no turn appended, no timestamp     *)
(* recorded.                                                               *)
(***************************************************************************)
C20_RejectedChangesNothing ==
  [][\A r \in ChatRequests :
       RejectedByLimiter(r) =>
         /\ handling'[r].pc = "done"
         /\ handling'[r].status = 429
         /\ \A other \in ChatRequests \ {r} : handling'[other] = handling[other]
         /\ UNCHANGED <<genCalls, queryCalls, completionCalls>>
         /\ UNCHANGED <<sessions, appended>>
         /\ UNCHANGED <<requestCounts, accepted>>
         /\ UNCHANGED <<embeddingsCache, embeddingsInitialized, populations>>]_vars

\* A request was answered 429 while the other request's stream is in progress
\* and its session holds a turn.
C20_Witness ==
  \E r, other \in ChatRequests :
    /\ handling[r].status = 429
    /\ rlLog[Len(rlLog)].result
    /\ handling[other].pc = "streaming"
    /\ sessions # EmptyMap

\* The step in which request r reads the history, adds its user turn and
\* issues the completion call.
Composes(r) == handling[r].pc = "retrieved" /\ handling'[r].pc = "awaitCreate"

\* The turns a session holds ('no session' holds none).
StoredTurns(sessionId) ==
  IF sessionId \in DOMAIN sessions THEN sessions[sessionId] ELSE <<>>

\* The user turn of request r.
UserTurn(r) == [role |-> "user", content |-> handling[r].message]

(***************************************************************************)
(* C21: the messages sent to the completion capability are the system      *)
(* prompt, then the session's stored turns as they were before the         *)
(* request's own append (at most 20), then the new user turn, exactly      *)
(* once; in the same step the user turn is appended right behind those     *)
(* stored turns, so that no other request's turn comes between them.       *)
(***************************************************************************)
C21_MessagesAreSnapshotPlusUser ==
  [][\A r \in ChatRequests :
       Composes(r) =>
         /\ handling'[r].messages =
              <<[role |-> "system", content |-> handling[r].context]>>
                \o StoredTurns(handling[r].sessionId) \o <<UserTurn(r)>>
         /\ Len(StoredTurns(handling[r].sessionId)) <= MAX_MESSAGES_PER_SESSION
         /\ Cardinality({k \in 1..Len(handling'[r].messages) :
                           handling'[r].messages[k] = UserTurn(r)}) = 1
         /\ sessions'[handling[r].sessionId] =
              LastN(StoredTurns(handling[r].sessionId) \o <<UserTurn(r)>>,
                    MAX_MESSAGES_PER_SESSION)]_vars

\* A request waits for its completion with 22 messages: the system prompt, 20
\* stored turns, the last of them the user turn of the other request, and its own.
C21_Witness ==
  \E r, other \in ChatRequests :
    /\ handling[r].pc = "awaitCreate"
    /\ Len(handling[r].messages) = MAX_MESSAGES_PER_SESSION + 2
    /\ handling[r].messages[MAX_MESSAGES_PER_SESSION + 1] = UserTurn(other)
    /\ handling[r].messages[MAX_MESSAGES_PER_SESSION + 2] = UserTurn(r)

\* Does the sequence hold the element?
Holds(seq, x) == \E k \in 1..Len(seq) : seq[k] = x

\* Is the turn one of those the session held at the start?
IsWarmTurn(turn) ==
  turn.content # EmptyString /\ turn.content[1].kind = "old"

\* The events of one kind a request has written.
EventsOf(r, kind) ==
  {k \in 1..Len(handling[r].events) : handling[r].events[k].event = kind}

\* Request r is over and its completion call or its stream has failed.
CompletionFailed(r) ==
  /\ handling[r].pc = "done"
  /\ Holds(handling[r].steps, "completion")
  /\ \/ handling[r].status = 500
     \/ EventsOf(r, "error") # {}

\* Request r is over and its stream has ended.
CompletionEnded(r) ==
  handling[r].pc = "done" /\ EventsOf(r, "done") # {}

\* The assistant turns appended to a session by the requests of this behaviour.
NewAssistantTurns(sessionId) ==
  {k \in 1..Len(appended[sessionId]) :
     /\ appended[sessionId][k].role = "assistant"
     /\ ~IsWarmTurn(appended[sessionId][k])}

(***************************************************************************)
(* C22: when the completion call or the stream of a request fails, no      *)
(* assistant turn is appended for it (the session got as many assistant    *)
(* turns as streams have ended), and its user turn, appended once, stays   *)
(* in the session history.                                                 *)
(***************************************************************************)
C22_FailedStreamLeavesUserTurn ==
  \A r \in ChatRequests :
    CompletionFailed(r) =>
      /\ ~Holds(handling[r].steps, "assistantWrite")
      /\ Cardinality(NewAssistantTurns(handling[r].sessionId))
           <= Cardinality({q \in ChatRequests : handling[q].pc \in {"streaming", "done"}
                                                 /\ ~CompletionFailed(q)
                                                 /\ Holds(handling[q].steps, "assistantWrite")})
      /\ Cardinality({k \in 1..Len(appended[handling[r].sessionId]) :
                        appended[handling[r].sessionId][k] = UserTurn(r)}) = 1
      /\ Holds(sessions[handling[r].sessionId], UserTurn(r))

\* A stream failed after it had produced a token, the other request's stream
\* ended: the session holds two new user turns and one new assistant turn.
C22_Witness ==
  \E r, other \in ChatRequests :
    /\ CompletionFailed(r)
    /\ handling[r].fullResponse # EmptyString
    /\ CompletionEnded(other)
    /\ Cardinality(NewAssistantTurns("s1")) = 1

\* The initialization of request r has failed and the catch block has answered.
InitFailed(r) ==
  /\ handling[r].pc = "done"
  /\ handling[r].steps = <<"gate", "ensure">>
  /\ handling[r].viaInit

\* The flag is true only over a populated cache, and only once the
\* initialization some request awaited has returned.
FlagImpliesCache ==
  embeddingsInitialized =>
    /\ CacheHit(embeddingsCache)
    /\ \E r \in ChatRequests :
         /\ handling[r].viaInit
         /\ handling[r].pc = "ensured" \/ Holds(handling[r].steps, "retrieval")

\* One step of request r, seen from the flag.
FlagStep(r) ==
  /\ (handling[r].pc = "awaitInit" /\ handling'[r].pc = "initRejected")
       => /\ embeddingsInitialized' = embeddingsInitialized
          /\ UNCHANGED <<sessions, appended>>
  /\ (handling[r].pc = "initRejected" /\ handling'[r].pc # "initRejected")
       => /\ InitFailed(r)'
          /\ handling'[r].status = 500
          /\ handling'[r].events = <<>>
          /\ embeddingsInitialized' = embeddingsInitialized
          /\ UNCHANGED <<sessions, appended, memOps>>
  /\ (handling[r].pc = "idle" /\ handling'[r].pc \in {"ensured", "initialized", "awaitInit"}
       /\ ~embeddingsInitialized)
       => /\ handling'[r].viaInit
          /\ (~CacheHit(embeddingsCache) /\ MoreBatches(0, ChatCorpusChunks[corpus]))
               => (handling'[r].pc = "awaitInit" /\ genCalls' = genCalls + 1)

(***************************************************************************)
(* C23: the flag is true only if the cache is populated; it becomes true   *)
(* only in the step of a request whose initializeEmbeddings has returned;  *)
(* a failed initialization leaves the flag as it was, is answered with     *)
(* status 500 and leaves the session memory alone; and a request that      *)
(* finds the flag false calls initializeEmbeddings again.                  *)
(***************************************************************************)
C23_FlagOnlyAfterInitialization ==
  /\ []FlagImpliesCache
  /\ [][/\ \A r \in ChatRequests : FlagStep(r)
        /\ (embeddingsInitialized' # embeddingsInitialized) =>
              \E r \in ChatRequests :
                /\ handling[r].pc = "initialized" /\ handling[r].viaInit
                /\ handling'[r].pc = "ensured"
                /\ CacheHit(embeddingsCache)]_vars

\* A request was answered 500 for its failed initialization, the flag is
\* false, and the next request has issued the embedding call again.
C23_Witness ==
  \E r, next \in ChatRequests :
    /\ InitFailed(r) /\ handling[r].status = 500
    /\ ~embeddingsInitialized
    /\ sessions = EmptyMap
    /\ handling[next].pc = "awaitInit"
    /\ genCalls = 2

\* The call of chunkText has returned.
ChunkReturned == calc.op = "chunkLoop" /\ calc.returned

(***************************************************************************)
(* C24: with 0 < overlap < chunkSize every call of chunkText returns; each *)
(* pass of the loop raises start by chunkSize - overlap, which is          *)
(* positive; the empty text returns no chunk (and the loop returns what    *)
(* ChunkText computes).                                                    *)
(***************************************************************************)
C24_ChunkTextTerminates ==
  /\ <>ChunkReturned
  /\ [][~ChunkReturned' =>
         /\ calc'.start = calc.start + (calc.chunkSize - calc.overlap)
         /\ calc'.start > calc.start
         /\ calc.start < calc.length]_vars
  /\ [](ChunkReturned =>
         /\ calc.length = 0 => calc.chunks = <<>>
         /\ calc.chunks = ChunkText(WholeText("t", calc.length), calc.chunkSize,
                                    calc.overlap))

\* A text of several windows was chunked with an overlap and returned.
C24_Witness ==
  /\ ChunkReturned
  /\ calc.overlap > 1
  /\ Len(calc.chunks) >= 3
  /\ calc.start > calc.length

\* The empty text has returned no chunk.
C24_WitnessEmpty == ChunkReturned /\ calc.length = 0 /\ calc.chunks = <<>>

(***************************************************************************)
(* C25: every stored list of the rate limiter has at most 60 timestamps,   *)
(* so a call that is rejected found all the stored timestamps of its key   *)
(* within the window: filtering removed none of them.                      *)
(***************************************************************************)
C25_StoredListsBounded ==
  /\ \A ip \in DOMAIN requestCounts :
        Len(requestCounts[ip]) <= MAX_REQUESTS_PER_WINDOW
  /\ \A k \in RLChecks :
        rlLog[k].result =>
          /\ Len(RLStored(k)) = MAX_REQUESTS_PER_WINDOW
          /\ \A i \in 1..Len(RLStored(k)) :
                rlLog[k].at - RLStored(k)[i] < RATE_LIMIT_WINDOW
          /\ RLAfter(k)[rlLog[k].ip] = RLStored(k)

\* A key whose 60th timestamp was recorded by a call of this behaviour is
\* rejected at a later clock value.
C25_Witness ==
  \E k \in RLChecks :
    /\ rlLog[k].result
    /\ RLStored(k)[MAX_REQUESTS_PER_WINDOW] > 0
    /\ rlLog[k].at > RLStored(k)[MAX_REQUESTS_PER_WINDOW]

\* The map the behaviour started from.
RLStart == IF rlLog = <<>> THEN requestCounts ELSE rlLog[1].before

\* The map after the first k logged events when every sweep among them is
\* left out: the isRateLimited calls alone, at their clock values.
RECURSIVE RLWithoutSweeps(_)
RLWithoutSweeps(k) ==
  IF k = 0 THEN RLStart
  ELSE IF rlLog[k].op = "check"
    THEN CountsAfterCheck(RLWithoutSweeps(k - 1), rlLog[k].ip, rlLog[k].at)
  ELSE RLWithoutSweeps(k - 1)

\* The timestamps of a key that count at clock value t.
RLCounting(m, ip, t) == IF ip \in DOMAIN m THEN ValidRequests(m[ip], t) ELSE <<>>

(***************************************************************************)
(* C26: the sweep is transparent.  Every logged isRateLimited call         *)
(* returned what it returns when the same calls are made at the same       *)
(* (non-decreasing) clock values with no sweep between them, and both runs *)
(* hold the same counting timestamps for every key.                        *)
(***************************************************************************)
C26_SweepIsTransparent ==
  /\ \A k \in RLChecks :
        rlLog[k].result = IsRateLimited(RLWithoutSweeps(k - 1), rlLog[k].ip, rlLog[k].at)
  /\ \A ip \in ClientIPs :
        RLCounting(requestCounts, ip, now)
          = RLCounting(RLWithoutSweeps(Len(rlLog)), ip, now)

\* A sweep removed a key with expired timestamps; a later call for that key
\* was answered as in the run without the sweep, where the key is still stored.
C26_Witness ==
  \E k \in RLSweeps, j \in RLChecks :
    /\ k < j
    /\ rlLog[j].ip \in DOMAIN rlLog[k].before
    /\ rlLog[j].ip \notin DOMAIN RLAfter(k)
    /\ RLWithoutSweeps(j - 1)[rlLog[j].ip] # <<>>
    /\ ~rlLog[j].result

\* The positions of a session's appended turns (no eviction) that hold the
\* user turn of request r.
UserTurnAt(r) ==
  {k \in 1..Len(appended[handling[r].sessionId]) :
     appended[handling[r].sessionId][k] = UserTurn(r)}

(***************************************************************************)
(* C27: whatever the interleaving of the requests of a session, the        *)
(* assistant turn of a request directly follows the user turn of that      *)
(* request in the sequence of turns appended to the session, and once the  *)
(* requests are over (none of them failed) the turns alternate between     *)
(* user and assistant.                                                     *)
(***************************************************************************)
C27_TurnsAlternate ==
  /\ \A r \in ChatRequests :
        Holds(handling[r].steps, "assistantWrite") =>
          \E k \in UserTurnAt(r) :
            /\ k < Len(appended[handling[r].sessionId])
            /\ appended[handling[r].sessionId][k + 1]
                 = [role |-> "assistant", content |-> handling[r].fullResponse]
  /\ \A sessionId \in SessionIds :
        \A k \in 1..(Len(appended[sessionId]) - 1) :
          (\A r \in ChatRequests : handling[r].pc \in {"idle", "done"}
                                     /\ ~CompletionFailed(r)) =>
            appended[sessionId][k].role # appended[sessionId][k + 1].role

\* The contents of the content events a request has written, concatenated in
\* the order of writing.
RECURSIVE ContentWritten(_, _)
ContentWritten(events, n) ==
  IF n = 0 THEN EmptyString
  ELSE ContentWritten(events, n - 1)
         \o (IF events[n].event = "content" THEN events[n].content ELSE EmptyString)

\* The positions of a step in the steps of a request.
StepsOf(r, step) == {k \in 1..Len(handling[r].steps) : handling[r].steps[k] = step}

(***************************************************************************)
(* C29: when a request has written its done event, that event is the last  *)
(* one it wrote, after all its content events; the assistant turn had been *)
(* appended before (it is the last turn of the session here, the request   *)
(* being alone) and its content is the concatenation, in order, of the     *)
(* contents of the content events.                                         *)
(***************************************************************************)
C29_DoneAfterContentAndAppend ==
  \A r \in ChatRequests :
    EventsOf(r, "done") # {} =>
      LET events == handling[r].events
          turns == appended[handling[r].sessionId]
      IN  /\ EventsOf(r, "done") = {Len(events)}
          /\ EventsOf(r, "error") = {}
          /\ \A k \in EventsOf(r, "content") : k < Len(events)
          /\ \A w \in StepsOf(r, "assistantWrite"), e \in StepsOf(r, "doneEvent"),
                c \in StepsOf(r, "chunk") : c < w /\ w < e
          /\ Cardinality(StepsOf(r, "assistantWrite")) = 1
          /\ Cardinality(StepsOf(r, "doneEvent")) = 1
          /\ turns # <<>>
          /\ turns[Len(turns)] =
                [role |-> "assistant", content |-> ContentWritten(events, Len(events))]
          /\ sessions[handling[r].sessionId][Len(sessions[handling[r].sessionId])]
                = turns[Len(turns)]

\* A stream of three chunks, an empty one between two different tokens, has
\* ended: two content events, then done.
C29_Witness ==
  /\ EventsOf("c1", "done") = {3}
  /\ EventsOf("c1", "content") = {1, 2}
  /\ handling["c1"].events[1].content # handling["c1"].events[2].content
  /\ handling["c1"].chunks = 3
  /\ handling["c1"].steps[Len(handling["c1"].steps) - 3] = "chunk"

\* The terminal outcomes of a request.
OutcomeNames ==
  {"options", "method", "credentials", "rateLimited", "invalidMessage",
   "failedBeforeStream", "streamDone", "streamError"}

\* The errors of the session-id and API-key checks.
CredentialErrors ==
  {"Missing session ID", "Server configuration error", "Missing API key", "Invalid API key"}

\* Has the answer of the finished request r the form of the named outcome?
OutcomeIs(r, outcome) ==
  LET me == handling[r]
      json == me.events = <<>>
      ended(kind) ==
        /\ me.status = 200 /\ me.error = "" /\ me.events # <<>>
        /\ EventsOf(r, kind) = {Len(me.events)}
        /\ EventsOf(r, "done") \cup EventsOf(r, "error") = {Len(me.events)}
  IN  CASE outcome = "options" ->
             json /\ me.status = 200 /\ me.error = "" /\ me.steps = <<>>
        [] outcome = "method" ->
             json /\ me.status = 405 /\ me.error = "Method not allowed" /\ me.steps = <<>>
        [] outcome = "credentials" ->
             json /\ me.status \in {400, 403} /\ me.error \in CredentialErrors
                  /\ me.steps = <<>>
        [] outcome = "rateLimited" ->
             json /\ me.status = 429 /\ me.steps = <<"gate">>
        [] outcome = "invalidMessage" ->
             json /\ me.status = 400 /\ me.error = "Invalid message format"
                  /\ me.steps = <<"gate">>
        [] outcome = "failedBeforeStream" ->
             json /\ me.status = 500 /\ me.error = "Internal server error"
                  /\ Holds(me.steps, "ensure")
        [] outcome = "streamDone" -> ended("done")
        [] outcome = "streamError" -> ended("error")

OutcomesOf(r) == {outcome \in OutcomeNames : OutcomeIs(r, outcome)}

(***************************************************************************)
(* C28: provided every awaited call returns or fails, a request that has   *)
(* arrived is answered; its answer has exactly one of the forms 200 for    *)
(* OPTIONS, 405, 400/403 for the session id or the API key, 429, 400 for   *)
(* the message, 500 JSON with no stream data written, or a stream closed   *)
(* by its one done or error event; and once given, the answer never        *)
(* changes.                                                                *)
(***************************************************************************)
C28_ExactlyOneOutcome ==
  /\ \A r \in ChatRequests : (handling[r].pc # "idle") ~> (handling[r].pc = "done")
  /\ [](\A r \in ChatRequests :
          IF handling[r].pc = "done" THEN Cardinality(OutcomesOf(r)) = 1
          ELSE /\ EventsOf(r, "done") \cup EventsOf(r, "error") = {}
               /\ handling[r].status \in {0, 200}
               /\ handling[r].error = "")
  /\ [][\A r \in ChatRequests :
          handling[r].pc = "done" => handling'[r] = handling[r]]_vars

\* A request whose stream failed after a content event: closed by the error
\* event, no done event.
C28_Witness ==
  /\ handling["c1"].pc = "done"
  /\ OutcomesOf("c1") = {"streamError"}
  /\ Len(handling["c1"].events) = 2
  /\ handling["c1"].events[1].event = "content"

\* The step records the clock value now' as a timestamp of the key.
SlotConsumed(clientIP) ==
  /\ clientIP \in DOMAIN requestCounts'
  /\ requestCounts'[clientIP]
       = Append(RLCounting(requestCounts, clientIP, now'), now')
  /\ accepted' = [accepted EXCEPT ![clientIP] = Append(@, now')]

\* The list stored for a key (none: empty).
StoredList(m, ip) == IF ip \in DOMAIN m THEN m[ip] ELSE <<>>

\* The step records no timestamp: every key keeps its list.
NoSlotConsumed ==
  /\ accepted' = accepted
  /\ \A ip \in ClientIPs :
        StoredList(requestCounts', ip) = StoredList(requestCounts, ip)

\* The request passes the checks made before the rate limiter is asked.
PassesChecks(handler, method, apiKey, expectedKey, sessionId) ==
  /\ method = "POST"
  /\ handler = "v2" => (expectedKey # "" /\ apiKey = expectedKey)
  /\ sessionId # ""

(***************************************************************************)
(* C30: the arrival of a request records a timestamp for its client key    *)
(* exactly when the request is a POST that passes the API-key check (in    *)
(* the handler that has one) and the session-id check and the key is not   *)
(* rate limited, whatever its message; otherwise it records none, and a    *)
(* request rejected for its method, API key or session id leaves the       *)
(* limiter's map as it was.                                                *)
(***************************************************************************)
C30_SlotConsumedIffChecked ==
  [][\A r \in ChatRequests :
       (handling[r].pc = "idle" /\ handling'[r].pc # "idle") =>
         \A handler \in Handlers, method \in Methods, apiKey \in ApiKeys,
            expectedKey \in ExpectedKeys, sessionId \in SessionIds,
            clientIP \in ClientIPs, d \in ChatElapsed :
           \A message \in ChatMessages(r) :
             ChatArrive(r, handler, method, apiKey, expectedKey, sessionId, clientIP,
                        message, d) =>
               LET passes == PassesChecks(handler, method, apiKey, expectedKey, sessionId)
               IN  /\ IF passes /\ ~IsRateLimited(requestCounts, clientIP, now')
                        THEN SlotConsumed(clientIP)
                      ELSE NoSlotConsumed
                   /\ ~passes => UNCHANGED <<requestCounts, accepted, rlLog>>]_vars

\* A request with an invalid message was answered 400 and has taken the 60th
\* slot of its key.
C30_Witness ==
  \E r \in ChatRequests, ip \in ClientIPs :
    /\ handling[r].pc = "done"
    /\ handling[r].status = 400 /\ handling[r].error = "Invalid message format"
    /\ Len(requestCounts[ip]) = MAX_REQUESTS_PER_WINDOW
    /\ requestCounts[ip][MAX_REQUESTS_PER_WINDOW] = now
    /\ now > 0

====
